---- MODULE Spec2Model ----
(***************************************************************************)
(* Token search of the aggregator service                                  *)
(* (services/aggregator-service/internal/services/external.go):            *)
(* input classification, the external-provider fan-out, the on-chain       *)
(* fan-outs, deduplication and the search cache.                           *)
(***************************************************************************)
EXTENDS Integers, Sequences, FiniteSets, TLC

(***************************************************************************)
(* Strings are sequences of one-character strings.                         *)
(***************************************************************************)
LowerLetters == <<"a","b","c","d","e","f","g","h","i","j","k","l","m",
                  "n","o","p","q","r","s","t","u","v","w","x","y","z">>
UpperLetters == <<"A","B","C","D","E","F","G","H","I","J","K","L","M",
                  "N","O","P","Q","R","S","T","U","V","W","X","Y","Z">>
Digits == {"0","1","2","3","4","5","6","7","8","9"}
WhiteSpace == {" ", "\t", "\n"}

Range(f) == { f[i] : i \in DOMAIN f }

IsLower(c) == c \in Range(LowerLetters)
IsUpper(c) == c \in Range(UpperLetters)
IsAlpha(c) == IsLower(c) \/ IsUpper(c)
IsAlnum(c) == IsAlpha(c) \/ c \in Digits
AlphaChars == Range(LowerLetters) \cup Range(UpperLetters)
AlnumChars == AlphaChars \cup Digits
HexChars == Digits \cup {"a","b","c","d","e","f","A","B","C","D","E","F"}

LetterIndex(letters, c) == CHOOSE i \in DOMAIN letters : letters[i] = c

\* strings.ToLower / strings.ToUpper, character by character
ToLowerChar(c) == IF IsUpper(c) THEN LowerLetters[LetterIndex(UpperLetters, c)] ELSE c
ToUpperChar(c) == IF IsLower(c) THEN UpperLetters[LetterIndex(LowerLetters, c)] ELSE c
ToLower(s) == [i \in DOMAIN s |-> ToLowerChar(s[i])]
ToUpper(s) == [i \in DOMAIN s |-> ToUpperChar(s[i])]

\* strings.TrimSpace: drop leading, then trailing white space
RECURSIVE TrimLeft(_)
TrimLeft(s) == IF s # <<>> /\ Head(s) \in WhiteSpace THEN TrimLeft(Tail(s)) ELSE s
RECURSIVE TrimRight(_)
TrimRight(s) ==
    IF s # <<>> /\ s[Len(s)] \in WhiteSpace THEN TrimRight(SubSeq(s, 1, Len(s) - 1)) ELSE s
TrimSpace(s) == TrimRight(TrimLeft(s))

\* n copies of character c
Repeat(c, n) == [i \in 1..n |-> c]

(***************************************************************************)
(* The two patterns, matched by a left-to-right scan as the regexp         *)
(* engine does: a counted run of a character class, then end of text.      *)
(***************************************************************************)
AddressHexDigits == 40
SymbolTailMin == 1
SymbolTailMax == 10

\* length of the longest prefix of s, at most max long, made of characters of class
RECURSIVE RunLength(_, _, _)
RunLength(s, max, class) ==
    IF max = 0 \/ s = <<>> \/ Head(s) \notin class THEN 0
    ELSE 1 + RunLength(Tail(s), max - 1, class)

\* ^0x[a-fA-F0-9]{40}$
ethereumAddressRegex(s) ==
    /\ Len(s) >= 2
    /\ s[1] = "0"
    /\ s[2] = "x"
    /\ LET rest == SubSeq(s, 3, Len(s))
           n == RunLength(rest, AddressHexDigits, HexChars)
       IN n = AddressHexDigits /\ Len(rest) = n

\* the symbol pattern with its upper repetition bound off by one
symbolRegexWide(s) ==
    /\ Len(s) >= 1
    /\ s[1] \in AlphaChars
    /\ LET rest == Tail(s)
           n == RunLength(rest, SymbolTailMax + 1, AlnumChars)
       IN n >= SymbolTailMin /\ n <= SymbolTailMax + 1 /\ Len(rest) = n

\* ^[A-Za-z][A-Za-z0-9]{1,10}$
symbolRegex(s) ==
    /\ Len(s) >= 1
    /\ s[1] \in AlphaChars
    /\ LET rest == Tail(s)
           n == RunLength(rest, SymbolTailMax, AlnumChars)
       IN n >= SymbolTailMin /\ Len(rest) = n

DetectInputType(input) ==
    LET trimmed == TrimSpace(input)
    IN IF ethereumAddressRegex(trimmed) THEN "address"
       ELSE IF symbolRegex(trimmed) THEN "symbol"
       ELSE "unknown"

(***************************************************************************)
(* Tokens (models.Token) and the chain configuration                       *)
(***************************************************************************)
Token(address, symbol, name, chainID, decimals, source, verified, popular) ==
    [Address |-> address, Symbol |-> symbol, Name |-> name, ChainID |-> chainID,
     Decimals |-> decimals, Source |-> source, Verified |-> verified, Popular |-> popular]

\* fmt.Sprintf("%d:%s", token.ChainID, strings.ToLower(token.Address))
TokenKey(token) == <<token.ChainID, ToLower(token.Address)>>

\* a ranking that puts the DEX-pair provider above the on-chain source
getSourcePriorityDexFirst(source) ==
    CASE source = "geckoterminal" -> 4
      [] source = "dexscreener" -> 3
      [] source = "onchain" -> 2
      [] source = "binance" -> 1
      [] OTHER -> 0

getSourcePriority(source) ==
    CASE source = "geckoterminal" -> 4
      [] source = "onchain" -> 3
      [] source = "dexscreener" -> 2
      [] source = "binance" -> 1
      [] OTHER -> 0

\* a loop in which a later record of equal priority replaces the earlier one
RECURSIVE DedupSeenLastWins(_, _)
DedupSeenLastWins(tokens, seen) ==
    IF tokens = <<>> THEN seen
    ELSE LET token == Head(tokens)
             key == TokenKey(token)
         IN DedupSeenLastWins(Tail(tokens),
                IF key \in DOMAIN seen
                THEN IF getSourcePriority(token.Source) >= getSourcePriority(seen[key].Source)
                     THEN [seen EXCEPT ![key] = token]
                     ELSE seen
                ELSE seen @@ (key :> token))

\* the map `seen` after the loop over tokens, starting from seen
RECURSIVE DedupSeen(_, _)
DedupSeen(tokens, seen) ==
    IF tokens = <<>> THEN seen
    ELSE LET token == Head(tokens)
             key == TokenKey(token)
         IN DedupSeen(Tail(tokens),
                IF key \in DOMAIN seen
                THEN IF getSourcePriority(token.Source) > getSourcePriority(seen[key].Source)
                     THEN [seen EXCEPT ![key] = token]
                     ELSE seen
                ELSE seen @@ (key :> token))

\* all the ways of listing the elements of the finite set S once each
Orderings(S) ==
    { f \in [1..Cardinality(S) -> S] : \A i, j \in DOMAIN f : i # j => f[i] # f[j] }

\* a loop that keeps every record (no collision handling)
deduplicateTokensKeepAll(tokens) == { tokens }

\* deduplicateTokens: the values of `seen`, in the order the map iteration
\* yields them, which Go leaves unspecified: every order is a possible result
deduplicateTokens(tokens) ==
    LET seen == DedupSeen(tokens, <<>>)
    IN { [i \in DOMAIN order |-> seen[order[i]]] : order \in Orderings(DOMAIN seen) }

(***************************************************************************)
(* Configuration tables read by the search (package config)                *)
(***************************************************************************)
SymWETH == <<"W","E","T","H">>
SymUSDC == <<"U","S","D","C">>
SymUSDT == <<"U","S","D","T">>

\* a mixed-case address, as a checksummed address is
AddrA == <<"0","x">> \o Repeat("A", 20) \o Repeat("b", 20)
AddrB == <<"0","x">> \o Repeat("C", 20) \o Repeat("d", 20)
AddrUSD == <<"0","x">> \o Repeat("e", 40)

\* config.GetActiveChains(env): the ids of the active chains
ActiveChains == {1, 56}

\* config.GetPopularTokens(chainID): symbol -> address
GetPopularTokens(chainID) ==
    CASE chainID = 1 -> (SymWETH :> AddrA)
      [] chainID = 56 -> (SymWETH :> AddrB)
      [] OTHER -> <<>>

\* config.GetPopularTokenMetadata(address, chainID) # nil
HasPopularTokenMetadata(address, chainID) ==
    \E sym \in DOMAIN GetPopularTokens(chainID) :
        ToLower(GetPopularTokens(chainID)[sym]) = ToLower(address)

\* config.IsStablecoin(symbol)
Stablecoins == {SymUSDC, SymUSDT}
\* a check that knows the upper-case spelling only
isStablecoinExact(symbol) == symbol \in Stablecoins
isStablecoin(symbol) == ToUpper(symbol) \in Stablecoins

mapGeckoTerminalNetworkToChainID(networkID) ==
    CASE networkID = "eth" -> 1
      [] networkID = "bsc" -> 56
      [] networkID = "base" -> 8453
      [] networkID = "base-sepolia" -> 84532
      [] networkID = "bsc-testnet" -> 97
      [] OTHER -> 0

mapDexScreenerChainToID(chain) ==
    CASE chain = "ethereum" -> 1
      [] chain = "bsc" -> 56
      [] chain = "polygon" -> 137
      [] chain = "base" -> 8453
      [] chain = "arbitrum" -> 42161
      [] chain = "optimism" -> 10
      [] OTHER -> 0

(***************************************************************************)
(* The three external providers.  A response is                            *)
(*   [kind |-> "transport_error" | "status" | "read_error" | "malformed"   *)
(*             | "ok", items |-> the pools, pairs or tickers of the body]  *)
(***************************************************************************)
Leg(address, symbol, name) == [Address |-> address, Symbol |-> symbol, Name |-> name]
Pool(network, base, quote) == [network |-> network, base |-> base, quote |-> quote]

\* the loop over result.Data of searchGeckoTerminal
RECURSIVE GeckoTerminalPools(_, _, _)
GeckoTerminalPools(pools, tokens, seenTokens) ==
    IF pools = <<>> THEN tokens
    ELSE LET pool == Head(pools)
             chainID == mapGeckoTerminalNetworkToChainID(pool.network)
         IN IF chainID = 0 \/ chainID \notin ActiveChains
            THEN GeckoTerminalPools(Tail(pools), tokens, seenTokens)
            ELSE LET baseKey == <<chainID, ToLower(pool.base.Address)>>
                     addBase == baseKey \notin seenTokens /\ pool.base.Address # <<>>
                     tokens1 == IF addBase
                                THEN Append(tokens,
                                       Token(ToLower(pool.base.Address), ToUpper(pool.base.Symbol),
                                             pool.base.Name, chainID, 18, "geckoterminal", TRUE, FALSE))
                                ELSE tokens
                     seen1 == IF addBase THEN seenTokens \cup {baseKey} ELSE seenTokens
                     quoteKey == <<chainID, ToLower(pool.quote.Address)>>
                     addQuote == /\ quoteKey \notin seen1
                                 /\ pool.quote.Address # <<>>
                                 /\ ~isStablecoin(pool.quote.Symbol)
                     tokens2 == IF addQuote
                                THEN Append(tokens1,
                                       Token(ToLower(pool.quote.Address), ToUpper(pool.quote.Symbol),
                                             pool.quote.Name, chainID, 18, "geckoterminal", TRUE, FALSE))
                                ELSE tokens1
                     seen2 == IF addQuote THEN seen1 \cup {quoteKey} ELSE seen1
                 IN GeckoTerminalPools(Tail(pools), tokens2, seen2)

\* a provider whose failed call is passed on as tokens instead of nil
searchGeckoTerminalLeaky(resp) == GeckoTerminalPools(resp.items, <<>>, {})

\* searchGeckoTerminal: nil on any failure before the body is parsed
searchGeckoTerminal(resp) ==
    IF resp.kind # "ok" THEN <<>> ELSE GeckoTerminalPools(resp.items, <<>>, {})

\* the loop over result.Pairs of searchDexScreener
RECURSIVE DexScreenerPairs(_, _, _)
DexScreenerPairs(pairs, tokens, seenTokens) ==
    IF pairs = <<>> THEN tokens
    ELSE LET pair == Head(pairs)
             chainID == mapDexScreenerChainToID(pair.network)
         IN IF chainID = 0 \/ chainID \notin ActiveChains
            THEN DexScreenerPairs(Tail(pairs), tokens, seenTokens)
            ELSE LET baseKey == <<chainID, ToLower(pair.base.Address)>>
                     addBase == baseKey \notin seenTokens
                     tokens1 == IF addBase
                                THEN Append(tokens,
                                       Token(ToLower(pair.base.Address), ToUpper(pair.base.Symbol),
                                             pair.base.Name, chainID, 18, "dexscreener", TRUE, FALSE))
                                ELSE tokens
                     seen1 == IF addBase THEN seenTokens \cup {baseKey} ELSE seenTokens
                     quoteKey == <<chainID, ToLower(pair.quote.Address)>>
                     addQuote == quoteKey \notin seen1 /\ ~isStablecoin(pair.quote.Symbol)
                     tokens2 == IF addQuote
                                THEN Append(tokens1,
                                       Token(ToLower(pair.quote.Address), ToUpper(pair.quote.Symbol),
                                             pair.quote.Name, chainID, 18, "dexscreener", TRUE, FALSE))
                                ELSE tokens1
                     seen2 == IF addQuote THEN seen1 \cup {quoteKey} ELSE seen1
                 IN DexScreenerPairs(Tail(pairs), tokens2, seen2)

\* a DEX-pair search that parses the body of a failed call
searchDexScreenerLeaky(resp) == DexScreenerPairs(resp.items, <<>>, {})

searchDexScreener(resp) ==
    IF resp.kind # "ok" THEN <<>> ELSE DexScreenerPairs(resp.items, <<>>, {})

\* strings.HasSuffix, strings.TrimSuffix, strings.Contains
HasSuffix(s, suffix) ==
    Len(s) >= Len(suffix) /\ SubSeq(s, Len(s) - Len(suffix) + 1, Len(s)) = suffix
TrimSuffix(s, suffix) ==
    IF HasSuffix(s, suffix) THEN SubSeq(s, 1, Len(s) - Len(suffix)) ELSE s
Contains(s, substr) ==
    \E i \in 1..(Len(s) + 1) :
        i + Len(substr) - 1 <= Len(s) /\ SubSeq(s, i, i + Len(substr) - 1) = substr

SuffixUSDT == <<"U","S","D","T">>
SuffixBNB == <<"B","N","B">>
bscChainID == 56

\* the loop over the tickers of searchBinance
RECURSIVE BinanceTickers(_, _, _, _)
BinanceTickers(tickers, queryUpper, tokens, seenSymbols) ==
    IF tickers = <<>> THEN tokens
    ELSE LET symbol == Head(tickers)
             paired == HasSuffix(symbol, SuffixUSDT) \/ HasSuffix(symbol, SuffixBNB)
             baseAsset == IF HasSuffix(symbol, SuffixUSDT) THEN TrimSuffix(symbol, SuffixUSDT)
                          ELSE TrimSuffix(symbol, SuffixBNB)
             popularTokens == GetPopularTokens(bscChainID)
             add == /\ paired
                    /\ Contains(baseAsset, queryUpper)
                    /\ baseAsset \notin seenSymbols
                    /\ baseAsset \in DOMAIN popularTokens
         IN IF add
            THEN BinanceTickers(Tail(tickers), queryUpper,
                     Append(tokens, Token(ToLower(popularTokens[baseAsset]), baseAsset, baseAsset,
                                          bscChainID, 18, "binance", TRUE, TRUE)),
                     seenSymbols \cup {baseAsset})
            ELSE BinanceTickers(Tail(tickers), queryUpper, tokens, seenSymbols)

\* a ticker search that does not look at the chain configuration
searchBinanceAnyChain(bscActive, resp, query) ==
    IF resp.kind # "ok" THEN <<>> ELSE BinanceTickers(resp.items, ToUpper(query), <<>>, {})

\* searchBinance, given whether config.GetChainByID(56, env) is there and active
searchBinanceWhen(bscActive, resp, query) ==
    IF resp.kind # "ok" THEN <<>>
    ELSE IF bscActive
         THEN BinanceTickers(resp.items, ToUpper(query), <<>>, {})
         ELSE <<>>

searchBinance(resp, query) == searchBinanceWhen(bscChainID \in ActiveChains, resp, query)

(***************************************************************************)
(* On-chain metadata.  A reply is what the three contract calls of one     *)
(* fetch give: each call fails or yields a value.                          *)
(***************************************************************************)
Reply(symbolOk, symbol, nameOk, name, decimalsOk, decimals) ==
    [symbolOk |-> symbolOk, symbol |-> symbol, nameOk |-> nameOk, name |-> name,
     decimalsOk |-> decimalsOk, decimals |-> decimals]

MaxDecimals == 77
DefaultDecimals == 18

\* The integer a decimals() response encodes, split at bit 64:
\* its value is hi * 2^64 + lo, with lo below 2^64.
Word(hi, lo) == [hi |-> hi, lo |-> lo]

\* new(big.Int).SetBytes(result).Uint64(): the low 64 bits
Uint64(word) == word.lo

\* callDecimalsMethod: the value and whether it returned an error
callDecimalsMethod(reply) ==
    IF ~reply.decimalsOk THEN [value |-> 0, err |-> TRUE]
    ELSE LET decimals == Uint64(reply.decimals)
         IN IF decimals > MaxDecimals
            THEN [value |-> 18, err |-> TRUE]
            ELSE [value |-> decimals % 256, err |-> FALSE]

\* A pointer that may be nil is a sequence of length at most one.
\* getTokenInfoFromContract: <<>> on an error, else <<tokenInfo>>
getTokenInfoFromContract(reply) ==
    IF ~reply.symbolOk THEN <<>>
    ELSE IF ~reply.nameOk THEN <<>>
    ELSE LET got == callDecimalsMethod(reply)
         IN << [Symbol |-> reply.symbol, Name |-> reply.name,
                Decimals |-> IF ~got.err THEN got.value ELSE DefaultDecimals] >>

\* a variant that keeps the address and the symbol as it got them
verifyTokenOnchainAsGiven(reply, address, chainID) ==
    LET got == getTokenInfoFromContract(reply)
    IN IF chainID \notin ActiveChains THEN <<>>
       ELSE IF got = <<>> THEN <<>>
       ELSE LET tokenInfo == got[1]
            IN IF tokenInfo.Symbol = <<>> \/ tokenInfo.Name = <<>> THEN <<>>
               ELSE << Token(address, tokenInfo.Symbol, tokenInfo.Name,
                             chainID, tokenInfo.Decimals, "onchain", TRUE, FALSE) >>

\* verifyTokenOnchain: <<>> for nil, else <<token>>
verifyTokenOnchain(reply, address, chainID) ==
    LET got == getTokenInfoFromContract(reply)
    IN IF chainID \notin ActiveChains THEN <<>>
       ELSE IF got = <<>> THEN <<>>
       ELSE LET tokenInfo == got[1]
            IN IF tokenInfo.Symbol = <<>> \/ tokenInfo.Name = <<>> THEN <<>>
               ELSE << Token(ToLower(address), ToUpper(tokenInfo.Symbol), tokenInfo.Name,
                             chainID, tokenInfo.Decimals, "onchain", TRUE, FALSE) >>

(***************************************************************************)
(* Market data.  A decimal.Decimal is an integer here, 0 when unset; the   *)
(* strings a provider sends for numbers are kept as strings.               *)
(***************************************************************************)
\* what decimal.NewFromString gives for the texts in use: <<>> on an error
ParseDecimal(str) ==
    CASE str = "0" -> <<0>>
      [] str = "0.0" -> <<0>>
      [] str = "3" -> <<3>>
      [] str = "7" -> <<7>>
      [] str = "-2" -> <<0 - 2>>
      [] OTHER -> <<>>

\* a models.Token with its market fields at their zero values
MarketToken(token) ==
    token @@ [PriceUSD |-> 0, Volume24h |-> 0, MarketCap |-> 0, Change24h |-> 0,
              LogoURI |-> <<>>, LastUpdated |-> 0]

\* a test that lets a zero through
NonNegativeText(str) ==
    /\ str \notin {"", "null"}
    /\ ParseDecimal(str) # <<>>
    /\ ParseDecimal(str)[1] >= 0

\* the test of the price, volume and market cap texts
PositiveText(str) ==
    /\ str \notin {"", "0", "null"}
    /\ ParseDecimal(str) # <<>>
    /\ ParseDecimal(str)[1] > 0

\* a variant that adds the volume to what the token holds
parseAndSetMarketDataAdding(token, priceUsd, volume24h, marketCap, priceChange24h, now) ==
    [token EXCEPT
        !.PriceUSD = IF PositiveText(priceUsd) THEN ParseDecimal(priceUsd)[1] ELSE @,
        !.Volume24h = IF PositiveText(volume24h) THEN @ + ParseDecimal(volume24h)[1] ELSE @,
        !.MarketCap = IF PositiveText(marketCap) THEN ParseDecimal(marketCap)[1] ELSE @,
        !.Change24h = IF priceChange24h \notin {"", "null"} /\ ParseDecimal(priceChange24h) # <<>>
                      THEN ParseDecimal(priceChange24h)[1] ELSE @,
        !.LastUpdated = now]

\* a variant that leaves the timestamp alone
parseAndSetMarketDataUnstamped(token, priceUsd, volume24h, marketCap, priceChange24h, now) ==
    [token EXCEPT
        !.PriceUSD = IF PositiveText(priceUsd) THEN ParseDecimal(priceUsd)[1] ELSE @,
        !.Volume24h = IF PositiveText(volume24h) THEN ParseDecimal(volume24h)[1] ELSE @,
        !.MarketCap = IF PositiveText(marketCap) THEN ParseDecimal(marketCap)[1] ELSE @,
        !.Change24h = IF priceChange24h \notin {"", "null"} /\ ParseDecimal(priceChange24h) # <<>>
                      THEN ParseDecimal(priceChange24h)[1] ELSE @]

\* parseAndSetMarketData; now is what time.Now() gives
parseAndSetMarketData(token, priceUsd, volume24h, marketCap, priceChange24h, now) ==
    [token EXCEPT
        !.PriceUSD = IF PositiveText(priceUsd) THEN ParseDecimal(priceUsd)[1] ELSE @,
        !.Volume24h = IF PositiveText(volume24h) THEN ParseDecimal(volume24h)[1] ELSE @,
        !.MarketCap = IF PositiveText(marketCap) THEN ParseDecimal(marketCap)[1] ELSE @,
        !.Change24h = IF priceChange24h \notin {"", "null"} /\ ParseDecimal(priceChange24h) # <<>>
                      THEN ParseDecimal(priceChange24h)[1] ELSE @,
        !.LastUpdated = now]

\* string(body)[:200] in the debug log of both enrichment steps
LogPrefixLen == 200

\* strings.EqualFold on the addresses in use
EqualFold(a, b) == ToLower(a) = ToLower(b)

\* one pair of a DexScreener token response
Pair(baseAddress, liquidityUSD, priceUsd, volumeH24, marketCap, priceChangeH24) ==
    [BaseAddress |-> baseAddress, LiquidityUSD |-> liquidityUSD, PriceUsd |-> priceUsd,
     VolumeH24 |-> volumeH24, MarketCap |-> marketCap, PriceChangeH24 |-> priceChangeH24]

\* the loop choosing bestPair: its index in pairs, 0 for nil
RECURSIVE BestPair(_, _, _, _, _)
BestPair(pairs, address, i, bestPair, maxLiquidity) ==
    IF i > Len(pairs) THEN bestPair
    ELSE LET pair == pairs[i]
         IN IF EqualFold(pair.BaseAddress, address)
            THEN IF pair.LiquidityUSD # ""
                 THEN LET liquidity == ParseDecimal(pair.LiquidityUSD)
                      IN IF liquidity # <<>> /\ (bestPair = 0 \/ liquidity[1] > maxLiquidity)
                         THEN BestPair(pairs, address, i + 1, i, liquidity[1])
                         ELSE BestPair(pairs, address, i + 1, bestPair, maxLiquidity)
                 ELSE IF bestPair = 0
                      THEN BestPair(pairs, address, i + 1, i, maxLiquidity)
                      ELSE BestPair(pairs, address, i + 1, bestPair, maxLiquidity)
            ELSE BestPair(pairs, address, i + 1, bestPair, maxLiquidity)

\* the outcome of one enrichment step
StepResult(ok, token, panicked) == [ok |-> ok, token |-> token, panicked |-> panicked]

\* enhanceFromDexScreener
enhanceFromDexScreener(token, resp, now) ==
    IF resp.kind \in {"transport_error", "status", "read_error"}
    THEN StepResult(FALSE, token, FALSE)
    ELSE IF resp.bodyLen < LogPrefixLen THEN StepResult(FALSE, token, TRUE)
    ELSE IF resp.kind = "malformed" THEN StepResult(FALSE, token, FALSE)
    ELSE IF Len(resp.pairs) = 0 THEN StepResult(FALSE, token, FALSE)
    ELSE LET bestPair == BestPair(resp.pairs, token.Address, 1, 0, 0)
         IN IF bestPair = 0 THEN StepResult(FALSE, token, FALSE)
            ELSE LET pair == resp.pairs[bestPair]
                     set == parseAndSetMarketData(token, pair.PriceUsd, pair.VolumeH24,
                                                  pair.MarketCap, pair.PriceChangeH24, now)
                 IN StepResult(TRUE, [set EXCEPT !.Source = "dexscreener_enhanced"], FALSE)

\* getNetworkSlugForGeckoTerminal: "" for a chain without a slug
getNetworkSlugForGeckoTerminal(chainID) ==
    CASE chainID = 1 -> "eth"
      [] chainID = 56 -> "bsc"
      [] chainID = 8453 -> "base"
      [] chainID = 137 -> "polygon_pos"
      [] chainID = 42161 -> "arbitrum"
      [] chainID = 10 -> "optimism"
      [] chainID = 84532 -> "base_sepolia"
      [] chainID = 97 -> "bsc_testnet"
      [] OTHER -> ""

\* the attributes of a GeckoTerminal token response
Attributes(name, priceUsd, volumeH24, marketCapUsd, fdvUsd, imageURL) ==
    [Name |-> name, PriceUsd |-> priceUsd, VolumeUsdH24 |-> volumeH24,
     MarketCapUsd |-> marketCapUsd, FdvUsd |-> fdvUsd, ImageURL |-> imageURL]

\* enhanceFromGeckoTerminal
enhanceFromGeckoTerminal(token, resp, now) ==
    IF getNetworkSlugForGeckoTerminal(token.ChainID) = "" THEN StepResult(FALSE, token, FALSE)
    ELSE IF resp.kind \in {"transport_error", "status", "read_error"}
    THEN StepResult(FALSE, token, FALSE)
    ELSE IF resp.bodyLen < LogPrefixLen THEN StepResult(FALSE, token, TRUE)
    ELSE IF resp.kind = "malformed" THEN StepResult(FALSE, token, FALSE)
    ELSE IF resp.attrs.Name = <<>> THEN StepResult(FALSE, token, FALSE)
    ELSE LET attrs == resp.attrs
             marketCapUsd == IF attrs.MarketCapUsd = "" \/ attrs.MarketCapUsd = "null"
                             THEN attrs.FdvUsd ELSE attrs.MarketCapUsd
             set == parseAndSetMarketData(token, attrs.PriceUsd, attrs.VolumeUsdH24,
                                          marketCapUsd, "0", now)
             logo == IF attrs.ImageURL # <<>> /\ set.LogoURI = <<>>
                     THEN attrs.ImageURL ELSE set.LogoURI
         IN StepResult(TRUE, [set EXCEPT !.LogoURI = logo,
                                         !.Source = "geckoterminal_enhanced"], FALSE)

\* what a run of the enrichment leaves: the token (<<>> for nil), the
\* providers it called in order, and whether it ended in a panic
RunResult(token, calls, panicked) == [token |-> token, calls |-> calls, panicked |-> panicked]

\* enhanceTokenWithMarketData on a token pointer
enhanceTokenWithMarketData(token, dex, gecko, now) ==
    IF token = <<>> THEN RunResult(<<>>, <<>>, FALSE)
    ELSE LET first == enhanceFromDexScreener(token[1], dex, now)
         IN IF first.panicked THEN RunResult(<<first.token>>, <<"dexscreener">>, TRUE)
            ELSE IF first.ok THEN RunResult(<<first.token>>, <<"dexscreener">>, FALSE)
            ELSE LET second == enhanceFromGeckoTerminal(first.token, gecko, now)
                     calls == <<"dexscreener", "geckoterminal">>
                 IN IF second.panicked THEN RunResult(<<second.token>>, calls, TRUE)
                    ELSE IF second.ok THEN RunResult(<<second.token>>, calls, FALSE)
                    ELSE RunResult(<<[second.token EXCEPT !.Source = "onchain_only"]>>,
                                   calls, FALSE)

\* getTokenWithMarketData: verifyTokenOnchain, then the enrichment of the
\* fresh token; when the run panicked the caller gets no token
getTokenWithMarketData(reply, address, chainID, dex, gecko, now) ==
    LET baseToken == verifyTokenOnchain(reply, address, chainID)
    IN IF baseToken = <<>> THEN RunResult(<<>>, <<>>, FALSE)
       ELSE enhanceTokenWithMarketData(<<MarketToken(baseToken[1])>>, dex, gecko, now)

(***************************************************************************)
(* SearchTokensExternal as a state machine                                 *)
(***************************************************************************)
VARIABLES
    fnIn, fnOut, fnPc,      \* a pure function under check: its input, output, position
    pc,                     \* where SearchTokensExternal is
    query,                  \* the query of the call
    ctxDone,                \* the caller's ctx is done (deadline or cancel)
    searchCtxDone,          \* searchCtx of searchByAddressOptimized is done
    prov,                   \* provider goroutines: [st, tokens]
    results,                \* the channel `results` of the provider goroutines
    collected,              \* the index i of the collection loop
    received,               \* the sources whose result the loop has received
    chain,                  \* chain goroutines of the running fan-out: [st, token]
    chainResults,           \* the channel `results` of the running fan-out
    chainClosed,            \* that channel is closed
    firstChain,             \* the chain goroutines of the fan-out of line 115, once joined
    allTokens,              \* allTokens
    returned, retErr,       \* what the call returned
    cache,                  \* the cache store: key -> stored list
    storeUp,                \* the cache store answers (FALSE: every Get and Set fails)
    cacheErr,               \* cache.Get of this call returned an error
    setCall,                \* the cache.Set this call issued: <<>> or <<[key, value, ttl]>>
    cachedAtStart,          \* what the store held under the call's key when it began
    hist,                   \* key -> list the last finished call returned, while its
                            \* TTL window lasts and if the store worked during the call
    prev,                   \* hist under the call's key when the call began
    extCalls,               \* provider requests issued by the call
    rpcCalls                \* quick checks and metadata fetches issued by the call

fnVars == <<fnIn, fnOut, fnPc>>
taskVars == <<prov, results, collected, received, chain, chainResults, chainClosed,
              firstChain>>
callVars == <<pc, query, ctxDone, searchCtxDone, allTokens, returned, retErr,
              cacheErr, setCall, cachedAtStart, prev, extCalls, rpcCalls>>
storeVars == <<cache, storeUp, hist>>
vars == <<fnVars, taskVars, callVars, storeVars>>

Providers == {"geckoterminal", "dexscreener", "binance"}
ResultsCap == 3
CollectRounds == 3

EmptyMap == [k \in {} |-> <<>>]
MapPut(m, key, value) == [k \in DOMAIN m \cup {key} |-> IF k = key THEN value ELSE m[k]]
MapDel(m, key) == [k \in DOMAIN m \ {key} |-> m[k]]
\* <<>> when absent, else <<value>>
MapGet(m, key) == IF key \in DOMAIN m THEN <<m[key]>> ELSE <<>>

\* a key that leaves the query out
CacheKeyByTypeOnly(q) == <<DetectInputType(q), <<>>>>

\* fmt.Sprintf("external:search:%s:%s", inputType, strings.ToLower(query))
CacheKey(q) == <<DetectInputType(q), ToLower(q)>>

\* a store that drops the write
CacheSetDropped(store, key, value) == store

\* s.cache.Set(ctx, cacheKey, finalTokens, 5*time.Minute)
CacheSet(store, key, value) == MapPut(store, key, value)

\* 5*time.Minute, in minutes
CacheTTL == 5

\* a variant that caches every final list
ShouldCacheAlways(finalTokens) == TRUE

\* if len(finalTokens) > 0
ShouldCache(finalTokens) == Len(finalTokens) > 0

\* a lookup that never hits
CacheHitNever(getErr, cachedResults) == FALSE

\* a lookup that returns what it has when the read fails
CacheHitOnError(getErr, cachedResults) == getErr \/ Len(cachedResults) > 0

\* err == nil && len(cachedResults) > 0
CacheHit(getErr, cachedResults) == ~getErr /\ Len(cachedResults) > 0

\* every input type goes to the providers
StrategyAllProviders(inputType) == "providers"

\* the branch at `if inputType == "address"`
Strategy(inputType) == IF inputType = "address" THEN "byAddress" ELSE "providers"

NoTask == [st |-> "none", tokens |-> <<>>]
\* rpc lists the RPC rounds the task has made, with the quick check's outcome;
\* sends counts the results the task has put on the channel
NoChainTask == [st |-> "none", token |-> <<>>, panicked |-> FALSE, rpc |-> <<>>, sends |-> 0]
PendingChainTask == [st |-> "pending", token |-> <<>>, panicked |-> FALSE, rpc |-> <<>>,
                     sends |-> 0]

\* the queries a caller submits: a symbol, an address, and a string that is neither
QSym == <<"w","e","t","h">>
QAddr == AddrA
QUnknown == <<"Z","Z","Z","N","O","T","A","T","O","K","E","N","1","2","3","4","5","6">>
Queries == {QSym, QAddr, QUnknown}

FnIdle == fnIn = <<>> /\ fnOut = <<>> /\ fnPc = "off"

SearchReset ==
    /\ pc = "idle"
    /\ ctxDone = FALSE
    /\ searchCtxDone = FALSE
    /\ prov = [p \in Providers |-> NoTask]
    /\ results = <<>>
    /\ collected = 0
    /\ received = {}
    /\ chain = [c \in ActiveChains |-> NoChainTask]
    /\ chainResults = <<>>
    /\ chainClosed = FALSE
    /\ firstChain = [c \in ActiveChains |-> NoChainTask]
    /\ allTokens = <<>>
    /\ returned = <<>>
    /\ retErr = "none"
    /\ cache = EmptyMap
    /\ cacheErr = FALSE
    /\ setCall = <<>>
    /\ cachedAtStart = <<>>
    /\ hist = EmptyMap
    /\ prev = <<>>
    /\ extCalls = 0
    /\ rpcCalls = 0

\* the search is not running (a pure function is under check)
SearchIdle == SearchReset /\ query = <<>> /\ storeUp = TRUE

\* the service after NewExternalAPIService, the cache empty; the query the
\* caller will search is fixed, and so is whether the cache store answers
Init == FnIdle /\ SearchReset /\ query \in Queries /\ storeUp \in BOOLEAN

(***************************************************************************)
(* What the environment may supply: queries, provider responses, contract  *)
(* replies.                                                                *)
(***************************************************************************)

NameWrapped == <<"W","r","a","p","p","e","d">>
NameUSD == <<"U","S","D">>

ResponseKinds == {"transport_error", "status", "read_error", "malformed", "ok"}

\* the providers spell addresses in mixed case and symbols as the token does
GeckoItems ==
    << Pool("eth", Leg(AddrA, SymWETH, NameWrapped), Leg(AddrUSD, ToLower(SymUSDC), NameUSD)) >>
DexItems ==
    << Pool("ethereum", Leg(AddrA, QSym, NameWrapped), Leg(AddrUSD, SymUSDT, NameUSD)) >>
BinanceItems == << SymWETH \o SuffixUSDT, SymWETH \o SuffixBNB >>

ProviderItems(p) ==
    CASE p = "geckoterminal" -> GeckoItems
      [] p = "dexscreener" -> DexItems
      [] p = "binance" -> BinanceItems

\* a body may be there whatever the failure (an error page that parses, say)
ProviderResponses(p) == { [kind |-> k, items |-> ProviderItems(p)] : k \in ResponseKinds }

ContractReplies ==
    { Reply(TRUE, QSym, TRUE, NameWrapped, TRUE, Word(0, 18)),
      Reply(FALSE, <<>>, FALSE, <<>>, FALSE, Word(0, 0)),
      Reply(TRUE, QSym, FALSE, <<>>, FALSE, Word(0, 0)),
      Reply(TRUE, QSym, TRUE, NameWrapped, FALSE, Word(0, 0)),
      Reply(TRUE, QSym, TRUE, NameWrapped, TRUE, Word(0, 78)),
      Reply(TRUE, <<>>, TRUE, NameWrapped, TRUE, Word(0, 18)) }

\* the search function each provider goroutine calls
ProviderSearch(p, resp, q) ==
    CASE p = "geckoterminal" -> searchGeckoTerminal(resp)
      [] p = "dexscreener" -> searchDexScreener(resp)
      [] p = "binance" -> searchBinance(resp, q)

\* a goroutine with no recover(): a panic sends nothing
PanicDeliversNothing(source) == <<>>

\* the deferred recover() of a provider goroutine: what it sends on a panic
PanicDelivers(source) == << [tokens |-> <<>>, source |-> source] >>

\* a recover that only logs
ChainPanicDeliversNothing(cID) == <<>>

\* a goroutine that sends in its recover after it has sent its result
ChainPanicDeliversTwice(cID) ==
    << [token |-> <<>>, chainID |-> cID], [token |-> <<>>, chainID |-> cID] >>

\* the deferred recover() of a chain goroutine: what it sends on a panic
ChainPanicDelivers(cID) == << [token |-> <<>>, chainID |-> cID] >>

\* searchOnchain's branch on the input type
OnchainPath(q) == IF DetectInputType(q) = "address" THEN "byAddress" ELSE "bySymbol"

\* launching one goroutine per active chain on a fresh channel
SpawnChains ==
    /\ chain' = [c \in ActiveChains |-> PendingChainTask]
    /\ chainResults' = <<>>
    /\ chainClosed' = FALSE
    /\ searchCtxDone' = FALSE

(***************************************************************************)
(* The call begins: classification, cache lookup, strategy                 *)
(***************************************************************************)
StartCall ==
    /\ pc \in {"idle", "done"}
    /\ LET cacheKey == CacheKey(query)
           getErr == ~storeUp
           cachedResults == IF getErr \/ cacheKey \notin DOMAIN cache
                            THEN <<>> ELSE cache[cacheKey]
       IN /\ cacheErr' = getErr
          /\ setCall' = <<>>
          /\ cachedAtStart' = MapGet(cache, cacheKey)
          /\ prev' = MapGet(hist, cacheKey)
          /\ ctxDone' = FALSE
          /\ results' = <<>>
          /\ collected' = 0
          /\ received' = {}
          /\ allTokens' = <<>>
          /\ firstChain' = [c \in ActiveChains |-> NoChainTask]
          /\ extCalls' = 0
          /\ rpcCalls' = 0
          /\ UNCHANGED <<cache, storeUp, query, fnVars>>
          /\ IF CacheHit(getErr, cachedResults)
             THEN /\ pc' = "done"
                  /\ returned' = cachedResults
                  /\ retErr' = "nil"
                  /\ prov' = [p \in Providers |-> NoTask]
                  /\ chain' = [c \in ActiveChains |-> NoChainTask]
                  /\ chainResults' = <<>>
                  /\ chainClosed' = FALSE
                  /\ searchCtxDone' = FALSE
                  /\ hist' = MapPut(hist, cacheKey, cachedResults)
             ELSE /\ returned' = <<>>
                  /\ retErr' = "none"
                  /\ hist' = MapDel(hist, cacheKey)
                  /\ IF Strategy(DetectInputType(query)) = "byAddress"
                     THEN /\ pc' = "addrJoin1"
                          /\ prov' = [p \in Providers |-> NoTask]
                          /\ SpawnChains
                     ELSE /\ pc' = "collect"
                          /\ prov' = [p \in Providers |-> [st |-> "pending", tokens |-> <<>>]]
                          /\ chain' = [c \in ActiveChains |-> NoChainTask]
                          /\ chainResults' = <<>>
                          /\ chainClosed' = FALSE
                          /\ searchCtxDone' = FALSE

(***************************************************************************)
(* Timers                                                                  *)
(***************************************************************************)
Deadline ==
    /\ pc \notin {"idle", "done"}
    /\ ~ctxDone
    /\ ctxDone' = TRUE
    /\ UNCHANGED <<fnVars, taskVars, storeVars, pc, query, searchCtxDone, allTokens,
                   returned, retErr, cacheErr, setCall, cachedAtStart, prev, extCalls, rpcCalls>>

\* the 3 s of searchCtx run out
SearchTimeout ==
    /\ pc \in {"addrJoin1", "addrJoin2"}
    /\ ~searchCtxDone
    /\ searchCtxDone' = TRUE
    /\ UNCHANGED <<fnVars, taskVars, storeVars, pc, query, ctxDone, allTokens,
                   returned, retErr, cacheErr, setCall, cachedAtStart, prev, extCalls, rpcCalls>>

(***************************************************************************)
(* A provider goroutine: the HTTP call, the parse, the send                *)
(***************************************************************************)
ProviderTask(p) ==
    /\ prov[p].st = "pending"
    /\ \E out \in ProviderResponses(p) \cup {[kind |-> "panic", items |-> <<>>]} :
         /\ out.kind = "ok" => ~ctxDone
         /\ LET tokens == IF out.kind = "panic" THEN <<>> ELSE ProviderSearch(p, out, query)
                sent == IF out.kind = "panic" THEN PanicDelivers(p)
                        ELSE << [tokens |-> tokens, source |-> p] >>
            IN /\ Len(results) + Len(sent) <= ResultsCap
               /\ results' = results \o sent
               /\ prov' = [prov EXCEPT ![p] =
                             [st |-> CASE out.kind = "ok" -> "ok"
                                       [] out.kind = "panic" -> "panicked"
                                       [] OTHER -> "failed",
                              tokens |-> tokens]]
    /\ extCalls' = extCalls + 1
    /\ UNCHANGED <<fnVars, storeVars, firstChain, collected, received, chain, chainResults, chainClosed,
                   pc, query, ctxDone, searchCtxDone, allTokens, returned, retErr,
                   cacheErr, setCall, cachedAtStart, prev, rpcCalls>>

(***************************************************************************)
(* The end of the call: deduplicate, cache, return                         *)
(***************************************************************************)
Finish(tokens) ==
    \E finalTokens \in deduplicateTokens(tokens) :
        LET cacheKey == CacheKey(query)
            setErr == ~storeUp
            stored == ShouldCache(finalTokens) /\ ~setErr
        IN /\ cache' = IF stored THEN CacheSet(cache, cacheKey, finalTokens) ELSE cache
           /\ setCall' = IF ShouldCache(finalTokens)
                         THEN << [key |-> cacheKey, value |-> finalTokens, ttl |-> CacheTTL] >>
                         ELSE <<>>
           /\ hist' = IF storeUp THEN MapPut(hist, cacheKey, finalTokens)
                      ELSE MapDel(hist, cacheKey)
           /\ UNCHANGED storeUp
           /\ returned' = finalTokens
           /\ retErr' = "nil"
           /\ pc' = "done"

(***************************************************************************)
(* The collection loop over the provider results: one round of the select  *)
(***************************************************************************)
Collect ==
    /\ pc = "collect"
    /\ collected < CollectRounds
    /\ \/ /\ results # <<>>
          /\ LET result == Head(results)
             IN /\ allTokens' = IF Len(result.tokens) > 0
                                THEN allTokens \o result.tokens ELSE allTokens
                /\ received' = received \cup {result.source}
          /\ results' = Tail(results)
       \/ /\ ctxDone
          /\ UNCHANGED <<allTokens, received, results>>
    /\ collected' = collected + 1
    /\ IF collected' = CollectRounds
       THEN /\ pc' = "symJoin"
            /\ SpawnChains
       ELSE /\ pc' = "collect"
            /\ UNCHANGED <<chain, chainResults, chainClosed, searchCtxDone>>
    /\ UNCHANGED <<fnVars, storeVars, firstChain, prov, query, ctxDone, returned, retErr,
                   cacheErr, setCall, cachedAtStart, prev, extCalls, rpcCalls>>

(***************************************************************************)
(* Chain goroutines                                                        *)
(***************************************************************************)
\* the symbol() and name() calls returned non-empty strings
FetchSucceeds(reply) ==
    reply.symbolOk /\ reply.nameOk /\ reply.symbol # <<>> /\ reply.name # <<>>

\* the entry a metadata fetch adds to the task's rpc list
FetchRound(reply) == IF FetchSucceeds(reply) THEN <<"fetch_ok">> ELSE <<"fetch_failed">>

\* the send of the task's one result after the RPC round named call
ChainSend(c, token, call) ==
    /\ Len(chainResults) < Cardinality(ActiveChains)
    /\ chainResults' = Append(chainResults, [token |-> token, chainID |-> c])
    /\ chain' = [chain EXCEPT ![c] = [st |-> "sent", token |-> token, panicked |-> FALSE,
                                      rpc |-> chain[c].rpc \o call,
                                      sends |-> chain[c].sends + 1]]

\* a panic during the RPC round named call, recovered by the deferred function
ChainPanic(c, call) ==
    /\ Len(chainResults) + Len(ChainPanicDelivers(c)) <= Cardinality(ActiveChains)
    /\ chainResults' = chainResults \o ChainPanicDelivers(c)
    /\ chain' = [chain EXCEPT ![c] = [st |-> "sent", token |-> <<>>, panicked |-> TRUE,
                                      rpc |-> chain[c].rpc \o call,
                                      sends |-> chain[c].sends + Len(ChainPanicDelivers(c))]]

\* a variant that leaves the flag as verifyTokenOnchain set it
MarkPopularNot(token) == token

\* token.Popular = true in searchOnchain's symbol branch
MarkPopular(token) == [token EXCEPT !.Popular = TRUE]

\* the goroutine of searchOnchain's symbol branch for chain c
ChainSymbolTask(c) ==
    /\ pc = "symJoin"
    /\ chain[c].st = "pending"
    /\ LET popularTokens == GetPopularTokens(c)
           queryUpper == ToUpper(query)
       IN IF queryUpper \in DOMAIN popularTokens
          THEN \/ \E reply \in ContractReplies :
                    /\ reply.symbolOk => ~ctxDone
                    /\ LET found == verifyTokenOnchain(reply, popularTokens[queryUpper], c)
                       IN ChainSend(c, IF found = <<>> THEN <<>>
                                       ELSE << MarkPopular(found[1]) >>, FetchRound(reply))
                    /\ rpcCalls' = rpcCalls + 1
               \/ /\ ChainPanic(c, <<"fetch_panicked">>)
                  /\ rpcCalls' = rpcCalls + 1
          ELSE /\ ChainSend(c, <<>>, <<>>)
               /\ UNCHANGED rpcCalls
    /\ UNCHANGED <<fnVars, storeVars, firstChain, prov, results, collected, received, chainClosed,
                   pc, query, ctxDone, searchCtxDone, allTokens, returned, retErr,
                   cacheErr, setCall, cachedAtStart, prev, extCalls>>

\* a variant that goes on to the metadata fetch whatever the quick check said
ProceedsAlways(quickOk) == TRUE

\* if !s.quickTokenCheck(searchCtx, address, cID) { send nil; return }
ProceedsToVerify(quickOk) == quickOk

\* searchByAddressOptimized, goroutine of chain c: quickTokenCheck
ChainQuickCheck(c) ==
    /\ pc \in {"addrJoin1", "addrJoin2"}
    /\ chain[c].st = "pending"
    /\ \/ \E quickOk \in BOOLEAN :
             /\ quickOk => (~ctxDone /\ ~searchCtxDone)
             /\ LET call == IF quickOk THEN <<"quick_ok">> ELSE <<"quick_failed">>
                IN IF ProceedsToVerify(quickOk)
                   THEN /\ chain' = [chain EXCEPT ![c].st = "checked",
                                                  ![c].rpc = chain[c].rpc \o call]
                        /\ UNCHANGED chainResults
                   ELSE ChainSend(c, <<>>, call)
       \/ ChainPanic(c, <<"quick_panicked">>)
    /\ rpcCalls' = rpcCalls + 1
    /\ UNCHANGED <<fnVars, storeVars, firstChain, prov, results, collected, received, chainClosed,
                   pc, query, ctxDone, searchCtxDone, allTokens, returned, retErr,
                   cacheErr, setCall, cachedAtStart, prev, extCalls>>

\* searchByAddressOptimized, goroutine of chain c: verifyTokenOnchain and the send
ChainVerify(c) ==
    /\ pc \in {"addrJoin1", "addrJoin2"}
    /\ chain[c].st = "checked"
    /\ \/ \E reply \in ContractReplies :
            /\ reply.symbolOk => (~ctxDone /\ ~searchCtxDone)
            /\ LET found == verifyTokenOnchain(reply, query, c)
               IN ChainSend(c, IF found # <<>> /\ HasPopularTokenMetadata(query, c)
                               THEN << [found[1] EXCEPT !.Popular = TRUE] >>
                               ELSE found, FetchRound(reply))
            /\ rpcCalls' = rpcCalls + 1
       \/ /\ ChainPanic(c, <<"fetch_panicked">>)
          /\ rpcCalls' = rpcCalls + 1
    /\ UNCHANGED <<fnVars, storeVars, firstChain, prov, results, collected, received, chainClosed,
                   pc, query, ctxDone, searchCtxDone, allTokens, returned, retErr,
                   cacheErr, setCall, cachedAtStart, prev, extCalls>>

\* a wait that returns as soon as one goroutine is done
WaitGroupDoneEarly == \E c \in ActiveChains : chain[c].st = "sent"

\* wg.Wait() returns: every goroutine has run its deferred wg.Done()
WaitGroupDone == \A c \in ActiveChains : chain[c].st = "sent"

\* the goroutine that waits for the WaitGroup and closes the channel
CloseResults ==
    /\ pc \in {"addrJoin1", "addrJoin2", "symJoin"}
    /\ ~chainClosed
    /\ WaitGroupDone
    /\ chainClosed' = TRUE
    /\ UNCHANGED <<fnVars, storeVars, firstChain, prov, results, collected, received, chain, chainResults,
                   callVars>>

(***************************************************************************)
(* The join `for result := range results` of a chain fan-out               *)
(***************************************************************************)
JoinReceive ==
    /\ pc \in {"addrJoin1", "addrJoin2", "symJoin"}
    /\ chainResults # <<>>
    /\ allTokens' = allTokens \o Head(chainResults).token
    /\ chainResults' = Tail(chainResults)
    /\ UNCHANGED <<fnVars, storeVars, firstChain, prov, results, collected, received, chain, chainClosed,
                   pc, query, ctxDone, searchCtxDone, returned, retErr,
                   cacheErr, setCall, cachedAtStart, prev, extCalls, rpcCalls>>

\* the channel is closed and drained: the loop ends and the caller goes on
JoinEnd ==
    /\ pc \in {"addrJoin1", "addrJoin2", "symJoin"}
    /\ chainResults = <<>>
    /\ chainClosed
    /\ IF pc = "addrJoin1"
       THEN /\ IF OnchainPath(query) = "byAddress"
               THEN pc' = "addrJoin2"
               ELSE pc' = "symJoin"
            /\ SpawnChains
            /\ firstChain' = chain
            /\ UNCHANGED <<storeVars, returned, retErr, setCall>>
       ELSE /\ Finish(allTokens)
            /\ UNCHANGED <<chain, chainResults, chainClosed, searchCtxDone, firstChain>>
    /\ UNCHANGED <<fnVars, prov, results, collected, received, query, ctxDone, allTokens,
                   cacheErr, cachedAtStart, prev, extCalls, rpcCalls>>

\* the TTL of the entry under key k runs out
Expire(k) ==
    /\ k \in DOMAIN cache \cup DOMAIN hist
    /\ cache' = MapDel(cache, k)
    /\ hist' = MapDel(hist, k)
    /\ UNCHANGED <<fnVars, taskVars, callVars, storeUp>>

Next ==
    \/ StartCall
    \/ Deadline
    \/ SearchTimeout
    \/ \E p \in Providers : ProviderTask(p)
    \/ Collect
    \/ \E c \in ActiveChains : ChainSymbolTask(c)
    \/ \E c \in ActiveChains : ChainQuickCheck(c)
    \/ \E c \in ActiveChains : ChainVerify(c)
    \/ CloseResults
    \/ JoinReceive
    \/ JoinEnd
    \/ \E k \in DOMAIN cache \cup DOMAIN hist : Expire(k)

Spec == Init /\ [][Next]_vars

(***************************************************************************)
(* DetectInputType on its own: the input is drawn at the start, the        *)
(* function is applied once.                                               *)
(***************************************************************************)
MaxDetectLen == 3

DetectAlphabet == {"a", "Z", "0", "x", " ", "_"}

\* every string over the alphabet up to the bound
ShortInputs == UNION { [1..n -> DetectAlphabet] : n \in 0..MaxDetectLen }

\* strings at the edges of the two patterns
LongInputs ==
    { AddrA,
      ToLower(AddrA),
      <<"0","x">> \o Repeat("1", 39),
      <<"0","x">> \o Repeat("1", 41),
      <<"0","X">> \o Repeat("1", 40),
      <<"0","x">> \o Repeat("1", 39) \o <<"g">>,
      <<"x","0">> \o Repeat("1", 40),
      <<"a">> \o Repeat("1", 9),
      <<"a">> \o Repeat("1", 10),
      <<"a">> \o Repeat("1", 11),
      <<"1">> \o Repeat("a", 5),
      QUnknown,
      <<" ">> \o AddrA \o <<"\n">>,
      <<"\t">> \o QSym \o <<" ", " ">>,
      <<"0","x">> \o Repeat("1", 20) \o <<" ">> \o Repeat("1", 19),
      <<" ">> \o QUnknown }

DetectInputs == ShortInputs \cup LongInputs

InitDetect ==
    /\ fnIn \in DetectInputs
    /\ fnOut = "none"
    /\ fnPc = "detect"
    /\ SearchIdle

ApplyDetectInputType ==
    /\ fnPc = "detect"
    /\ fnOut' = DetectInputType(fnIn)
    /\ fnPc' = "detected"
    /\ UNCHANGED <<fnIn, taskVars, callVars, storeVars>>

NextDetect == ApplyDetectInputType

SpecDetect == InitDetect /\ [][NextDetect]_vars

(***************************************************************************)
(* deduplicateTokens on its own: the input list is drawn at the start, the *)
(* function is applied once; the order of its output is the map's.         *)
(***************************************************************************)
MaxDedupLen == 3

Sources == {"geckoterminal", "onchain", "dexscreener", "binance"}

\* one address (shortened) in two spellings on one chain, and the same on another
DedupAddr == <<"0", "x", "A", "b">>
DedupSlots == { <<DedupAddr, 1>>, <<ToLower(DedupAddr), 1>>, <<DedupAddr, 56>> }

DedupTokens ==
    { Token(slot[1], SymWETH, NameWrapped, slot[2], 18, src, src = "onchain", FALSE) :
        slot \in DedupSlots, src \in Sources }

DedupInputs == UNION { [1..n -> DedupTokens] : n \in 0..MaxDedupLen }

InitDedup ==
    /\ fnIn \in DedupInputs
    /\ fnOut = <<>>
    /\ fnPc = "dedup"
    /\ SearchIdle

ApplyDeduplicateTokens ==
    /\ fnPc = "dedup"
    /\ fnOut' \in deduplicateTokens(fnIn)
    /\ fnPc' = "deduped"
    /\ UNCHANGED <<fnIn, taskVars, callVars, storeVars>>

NextDedup == ApplyDeduplicateTokens

SpecDedup == InitDedup /\ [][NextDedup]_vars

(***************************************************************************)
(* deduplicateTokens on records of one token whose sources are known tags  *)
(* and tags getSourcePriority does not list.                               *)
(***************************************************************************)
\* two tags of the ranking and two tags the enrichment writes
TieSources == {"onchain", "binance", "onchain_only", "dexscreener_enhanced"}

\* records of one key that differ in the spelling of the address
TieTokens ==
    { Token(a, SymWETH, NameWrapped, 1, 18, src, src = "onchain", FALSE) :
        a \in {DedupAddr, ToLower(DedupAddr)}, src \in TieSources }

InitDedupTies ==
    /\ fnIn \in UNION { [1..n -> TieTokens] : n \in 0..MaxDedupLen }
    /\ fnOut = <<>>
    /\ fnPc = "dedup"
    /\ SearchIdle

SpecDedupTies == InitDedupTies /\ [][NextDedup]_vars

(***************************************************************************)
(* verifyTokenOnchain on its own: what the three contract calls give is    *)
(* drawn at the start, the function is applied once.                       *)
(***************************************************************************)
\* low 64 bits of a decimals() response: around the ends of 0..77, and a byte
DecimalsLow == {0, 6, 18, 77, 78, 255}
\* whether the response has bits set above the low 64
DecimalsHigh == {0, 1}

VerifyInputs ==
    { [reply |-> Reply(sOk, sym, nOk, nam, dOk, Word(hi, lo)), chainID |-> c] :
        sOk \in BOOLEAN, sym \in {<<>>, QSym}, nOk \in BOOLEAN, nam \in {<<>>, NameWrapped},
        dOk \in BOOLEAN, hi \in DecimalsHigh, lo \in DecimalsLow, c \in ActiveChains }

InitVerify ==
    /\ fnIn \in VerifyInputs
    /\ fnOut = <<>>
    /\ fnPc = "verify"
    /\ SearchIdle

ApplyVerifyTokenOnchain ==
    /\ fnPc = "verify"
    /\ fnOut' = verifyTokenOnchain(fnIn.reply, AddrA, fnIn.chainID)
    /\ fnPc' = "verified"
    /\ UNCHANGED <<fnIn, taskVars, callVars, storeVars>>

NextVerify == ApplyVerifyTokenOnchain

SpecVerify == InitVerify /\ [][NextVerify]_vars

(***************************************************************************)
(* getTokenWithMarketData and repeated runs of enhanceTokenWithMarketData  *)
(* on its token, the two providers answering the same way every time.     *)
(* fnOut is the list of the runs' results.                                 *)
(***************************************************************************)
MaxPairs == 2
EnhanceRuns == 2

OtherAddr == <<"0", "x", "c", "d">>

EnhancePairs ==
    { Pair(DedupAddr, "3", "7", "3", "", "-2"),
      Pair(ToLower(DedupAddr), "7", "", "0", "null", "abc"),
      Pair(OtherAddr, "7", "3", "7", "7", "3"),
      Pair(ToLower(DedupAddr), "", "3", "7", "3", ""),
      Pair(DedupAddr, "abc", "3", "3", "7", "0") }

PairLists == UNION { [1..n -> EnhancePairs] : n \in 0..MaxPairs }

\* a body one byte short of the logged prefix, and one just long enough
BodyLens == {LogPrefixLen - 1, LogPrefixLen}

NoBodyKinds == {"transport_error", "status", "read_error"}

DexResponses ==
    { [kind |-> k, bodyLen |-> 0, pairs |-> <<>>] : k \in NoBodyKinds }
    \cup { [kind |-> "malformed", bodyLen |-> n, pairs |-> <<>>] : n \in BodyLens }
    \cup { [kind |-> "ok", bodyLen |-> n, pairs |-> ps] : n \in BodyLens, ps \in PairLists }

NoAttributes == Attributes(<<>>, "", "", "", "", <<>>)

GeckoAttributes ==
    { Attributes(name, price, "7", mcap, "3", image) :
        name \in {<<>>, NameWrapped}, price \in {"", "3"}, mcap \in {"null", "7"},
        image \in {<<>>, <<"i">>} }

GeckoResponses ==
    { [kind |-> k, bodyLen |-> 0, attrs |-> NoAttributes] : k \in NoBodyKinds }
    \cup { [kind |-> "malformed", bodyLen |-> n, attrs |-> NoAttributes] : n \in BodyLens }
    \cup { [kind |-> "ok", bodyLen |-> n, attrs |-> a] : n \in BodyLens, a \in GeckoAttributes }

EnhanceReplies ==
    { Reply(TRUE, QSym, TRUE, NameWrapped, TRUE, Word(0, 18)),
      Reply(FALSE, <<>>, FALSE, <<>>, FALSE, Word(0, 0)) }

EnhanceInputs ==
    { [reply |-> r, chainID |-> c, dex |-> d, gecko |-> g] :
        r \in EnhanceReplies, c \in ActiveChains, d \in DexResponses, g \in GeckoResponses }

InitEnhance ==
    /\ fnIn \in EnhanceInputs
    /\ fnOut = <<>>
    /\ fnPc = "enhance"
    /\ SearchIdle

\* the first run: the token comes from the chain
ApplyGetTokenWithMarketData ==
    /\ fnPc = "enhance"
    /\ fnOut = <<>>
    /\ fnOut' = << getTokenWithMarketData(fnIn.reply, DedupAddr, fnIn.chainID,
                                          fnIn.dex, fnIn.gecko, 1) >>
    /\ UNCHANGED <<fnIn, fnPc, taskVars, callVars, storeVars>>

\* a further run on the token the last run left, unless that run panicked
ApplyEnhanceTokenWithMarketData ==
    /\ fnPc = "enhance"
    /\ fnOut # <<>>
    /\ Len(fnOut) < EnhanceRuns
    /\ ~fnOut[Len(fnOut)].panicked
    /\ fnOut' = Append(fnOut, enhanceTokenWithMarketData(fnOut[Len(fnOut)].token, fnIn.dex,
                                                         fnIn.gecko, Len(fnOut) + 1))
    /\ UNCHANGED <<fnIn, fnPc, taskVars, callVars, storeVars>>

NextEnhance == ApplyGetTokenWithMarketData \/ ApplyEnhanceTokenWithMarketData

SpecEnhance == InitEnhance /\ [][NextEnhance]_vars

(***************************************************************************)
(* The deadlines of one chain task of searchByAddressOptimized.  Time is   *)
(* in seconds from the start of the fan-out; a context is the time at      *)
(* which it is done.  The quick check and the metadata fetch each take a   *)
(* time the RPC node decides.                                              *)
(***************************************************************************)
MaxTook == 6
MaxCtxDeadline == 9

\* context.WithTimeout(ctx, 3*time.Second) in searchByAddressOptimized
SearchBudget == 3
\* context.WithTimeout(ctx, 3*time.Second) in quickTokenCheck
QuickBudget == 3
\* context.WithTimeout(ctx, 5*time.Second) in verifyTokenOnchain
RpcBudget == 5

\* context.WithTimeout: the child is done at the parent's deadline at the latest
WithTimeout(parent, now, timeout) == IF now + timeout < parent THEN now + timeout ELSE parent

\* a call started at now that takes took returns its result if the context
\* is not done by then
CompletesUnder(ctx, now, took) == now + took < ctx

BudgetInputs ==
    { [ctx |-> d, quickTook |-> q, fetchTook |-> f] :
        d \in 1..MaxCtxDeadline, q \in 0..MaxTook, f \in 0..MaxTook }

InitBudget ==
    /\ fnIn \in BudgetInputs
    /\ fnOut = <<>>
    /\ fnPc = "quick"
    /\ SearchIdle

\* the goroutine's quickTokenCheck(searchCtx, ...)
ApplyQuickTokenCheck ==
    /\ fnPc = "quick"
    /\ LET searchCtx == WithTimeout(fnIn.ctx, 0, SearchBudget)
           quickCtx == WithTimeout(searchCtx, 0, QuickBudget)
           passed == CompletesUnder(quickCtx, 0, fnIn.quickTook)
           now == IF passed THEN fnIn.quickTook ELSE quickCtx
       IN /\ fnOut' = [searchCtx |-> searchCtx, now |-> now, passed |-> passed,
                       fetched |-> FALSE]
          /\ fnPc' = IF ProceedsToVerify(passed) THEN "fetch" ELSE "sent"
    /\ UNCHANGED <<fnIn, taskVars, callVars, storeVars>>

\* the goroutine's verifyTokenOnchain(searchCtx, ...) and the send
ApplyVerifyUnderBudget ==
    /\ fnPc = "fetch"
    /\ LET rpcCtx == WithTimeout(fnOut.searchCtx, fnOut.now, RpcBudget)
           fetched == CompletesUnder(rpcCtx, fnOut.now, fnIn.fetchTook)
       IN fnOut' = [fnOut EXCEPT !.fetched = fetched,
                                 !.now = IF fetched THEN @ + fnIn.fetchTook ELSE rpcCtx]
    /\ fnPc' = "sent"
    /\ UNCHANGED <<fnIn, taskVars, callVars, storeVars>>

NextBudget == ApplyQuickTokenCheck \/ ApplyVerifyUnderBudget

SpecBudget == InitBudget /\ [][NextBudget]_vars

(***************************************************************************)
(* Concurrent calls of SearchTokensExternal on one cache.  Call i has the  *)
(* query fnIn[i], is at fnPc[i] and holds its local lists in fnOut[i]; the *)
(* calls share nothing but the cache, which they reach by Get and Set.     *)
(***************************************************************************)
NumCalls == 2

Calls == 1..NumCalls

\* two spellings of one symbol, which share a key, and another symbol
ConcurrentQueries == {QSym, ToUpper(QSym), ToLower(SymUSDC)}

\* the tokens the sources can produce for a query: one on each active chain
FoundTokens(q) ==
    { Token(DedupAddr, ToUpper(q), NameWrapped, c, DefaultDecimals, "onchain", TRUE, TRUE) :
         c \in ActiveChains }

\* the lists allTokens can be when the search of a query is over: up to one
\* token for each active chain, in any order, the same token twice included
FoundLists(q) == UNION { [1..n -> FoundTokens(q)] : n \in 0..Cardinality(ActiveChains) }

NoLists == [all |-> <<>>, final |-> <<>>, fromCache |-> FALSE]

InitConcurrent ==
    /\ fnIn \in [Calls -> ConcurrentQueries]
    /\ fnIn[1] = QSym                  \* the calls are alike: name one of them
    /\ fnOut = [i \in Calls |-> NoLists]
    /\ fnPc = [i \in Calls |-> "get"]
    /\ SearchReset
    /\ query = <<>>
    /\ storeUp \in BOOLEAN

\* s.cache.Get and the early return on a hit
ConcurrentGet(i) ==
    /\ fnPc[i] = "get"
    /\ LET cacheKey == CacheKey(fnIn[i])
           getErr == ~storeUp
           cachedResults == IF getErr \/ cacheKey \notin DOMAIN cache
                            THEN <<>> ELSE cache[cacheKey]
       IN IF CacheHit(getErr, cachedResults)
          THEN /\ fnPc' = [fnPc EXCEPT ![i] = "done"]
               /\ fnOut' = [fnOut EXCEPT ![i] = [all |-> <<>>, final |-> cachedResults,
                                                 fromCache |-> TRUE]]
          ELSE /\ fnPc' = [fnPc EXCEPT ![i] = "search"]
               /\ UNCHANGED fnOut
    /\ UNCHANGED <<fnIn, taskVars, callVars, storeVars>>

\* the search and deduplicateTokens, on the call's own lists
ConcurrentSearch(i) ==
    /\ fnPc[i] = "search"
    /\ \E allFound \in FoundLists(fnIn[i]) :
         \E finalTokens \in deduplicateTokens(allFound) :
            fnOut' = [fnOut EXCEPT ![i] = [all |-> allFound, final |-> finalTokens,
                                           fromCache |-> FALSE]]
    /\ fnPc' = [fnPc EXCEPT ![i] = "set"]
    /\ UNCHANGED <<fnIn, taskVars, callVars, storeVars>>

\* the s.cache.Set under `if len(finalTokens) > 0` and the return
ConcurrentSet(i) ==
    /\ fnPc[i] = "set"
    /\ LET finalTokens == fnOut[i].final
           setErr == ~storeUp
       IN cache' = IF ShouldCache(finalTokens) /\ ~setErr
                   THEN CacheSet(cache, CacheKey(fnIn[i]), finalTokens)
                   ELSE cache
    /\ fnPc' = [fnPc EXCEPT ![i] = "done"]
    /\ UNCHANGED <<fnIn, fnOut, taskVars, callVars, storeUp, hist>>

NextConcurrent ==
    \E i \in Calls : ConcurrentGet(i) \/ ConcurrentSearch(i) \/ ConcurrentSet(i)

SpecConcurrent == InitConcurrent /\ [][NextConcurrent]_vars

(***************************************************************************)
(* parseAndSetMarketData on a token that holds earlier market data or none *)
(***************************************************************************)
\* absent, zero in two spellings, null, not a number, negative, positive
DecimalTexts == {"", "0", "0.0", "null", "abc", "-2", "3", "7"}

\* the token before the call: nil, fresh, or with every market field set
ParseTokens ==
    LET fresh == MarketToken(Token(DedupAddr, SymWETH, NameWrapped, 1, DefaultDecimals,
                                   "onchain", TRUE, FALSE))
    IN { <<>>, <<fresh>>,
         << [fresh EXCEPT !.PriceUSD = 7, !.Volume24h = 7, !.MarketCap = 7,
                          !.Change24h = 3, !.LastUpdated = 1] >> }

ParseInputs ==
    { [token |-> t, priceUsd |-> p, volume24h |-> v, marketCap |-> m, priceChange24h |-> c] :
        t \in ParseTokens, p \in DecimalTexts, v \in DecimalTexts, m \in DecimalTexts,
        c \in DecimalTexts }

InitParse ==
    /\ fnIn \in ParseInputs
    /\ fnOut = <<>>
    /\ fnPc = "parse"
    /\ SearchIdle

\* one call; a nil token is left alone (the function returns at once)
ApplyParseAndSetMarketData ==
    /\ fnPc = "parse"
    /\ fnOut' = IF fnIn.token = <<>> THEN <<>>
                ELSE << parseAndSetMarketData(fnIn.token[1], fnIn.priceUsd, fnIn.volume24h,
                                              fnIn.marketCap, fnIn.priceChange24h, 2) >>
    /\ fnPc' = "parsed"
    /\ UNCHANGED <<fnIn, taskVars, callVars, storeVars>>

NextParse == ApplyParseAndSetMarketData

SpecParse == InitParse /\ [][NextParse]_vars

(***************************************************************************)
(* The three search functions on their own: the provider, its response and *)
(* the query are drawn at the start, the function is applied once.         *)
(***************************************************************************)
MaxPools == 2
MaxTickers == 2

SymETH == <<"E","T","H">>
ShortAddrA == <<"0", "x", "A", "b">>
ShortAddrB == <<"0", "x", "C", "d">>
ShortAddrUSD == <<"0", "x", "e", "e">>

\* a base leg is a token or a stablecoin; a quote leg is a stablecoin spelt in
\* lower or upper case, another token, or has no address
BaseLegs == { Leg(ShortAddrA, SymWETH, NameWrapped), Leg(ShortAddrUSD, SymUSDT, NameUSD) }
QuoteLegs ==
    { Leg(ShortAddrUSD, ToLower(SymUSDC), NameUSD), Leg(ShortAddrUSD, SymUSDT, NameUSD),
      Leg(ShortAddrB, ToLower(SymWETH), NameWrapped), Leg(<<>>, SymETH, NameWrapped) }

\* an active chain, a chain of the table that is not active, a slug not in the table
GeckoNetworks == <<"eth", "base", "solana">>
DexNetworks == <<"ethereum", "polygon", "solana">>

\* every pair of legs on the active chain, one pool on each of the others
PoolsOn(networks) ==
    { Pool(networks[1], b, q) : b \in BaseLegs, q \in QuoteLegs }
    \cup { Pool(networks[n], Leg(ShortAddrA, SymWETH, NameWrapped),
                 Leg(ShortAddrB, ToLower(SymWETH), NameWrapped)) : n \in 2..3 }

\* tickers: two pairs of a listed asset, a pair of an unlisted asset, a pair
\* with another quote, and the quote alone
BinanceTickerSymbols ==
    { SymWETH \o SuffixUSDT, SymWETH \o SuffixBNB, SymETH \o SuffixUSDT,
      SymWETH \o SymUSDC, SuffixUSDT }

ProviderQueries == { SymWETH, ToLower(SymWETH), SymETH }

ListsOf(S, max) == UNION { [1..n -> S] : n \in 0..max }

\* the response a provider that is not called has
NoResponse == [kind |-> "transport_error", items |-> <<>>]

\* pools is the response to a pool or pair search, tickers the one to searchBinance
ProviderInputs ==
    { [provider |-> "geckoterminal", bscActive |-> TRUE, query |-> SymWETH,
       pools |-> [kind |-> k, items |-> items], tickers |-> NoResponse] :
        k \in ResponseKinds, items \in ListsOf(PoolsOn(GeckoNetworks), MaxPools) }
    \cup
    { [provider |-> "dexscreener", bscActive |-> TRUE, query |-> SymWETH,
       pools |-> [kind |-> k, items |-> items], tickers |-> NoResponse] :
        k \in ResponseKinds, items \in ListsOf(PoolsOn(DexNetworks), MaxPools) }
    \cup
    { [provider |-> "binance", bscActive |-> a, query |-> q,
       pools |-> NoResponse, tickers |-> [kind |-> k, items |-> items]] :
        a \in BOOLEAN, q \in ProviderQueries, k \in ResponseKinds,
        items \in ListsOf(BinanceTickerSymbols, MaxTickers) }

InitProviders ==
    /\ fnIn \in ProviderInputs
    /\ fnOut = <<>>
    /\ fnPc = "search"
    /\ SearchIdle

ApplySearchGeckoTerminal ==
    /\ fnPc = "search"
    /\ fnIn.provider = "geckoterminal"
    /\ fnOut' = searchGeckoTerminal(fnIn.pools)
    /\ fnPc' = "searched"
    /\ UNCHANGED <<fnIn, taskVars, callVars, storeVars>>

ApplySearchDexScreener ==
    /\ fnPc = "search"
    /\ fnIn.provider = "dexscreener"
    /\ fnOut' = searchDexScreener(fnIn.pools)
    /\ fnPc' = "searched"
    /\ UNCHANGED <<fnIn, taskVars, callVars, storeVars>>

ApplySearchBinance ==
    /\ fnPc = "search"
    /\ fnIn.provider = "binance"
    /\ fnOut' = searchBinanceWhen(fnIn.bscActive, fnIn.tickers, fnIn.query)
    /\ fnPc' = "searched"
    /\ UNCHANGED <<fnIn, taskVars, callVars, storeVars>>

NextProviders == ApplySearchGeckoTerminal \/ ApplySearchDexScreener \/ ApplySearchBinance

SpecProviders == InitProviders /\ [][NextProviders]_vars

(***************************************************************************)
(* Properties                                                              *)
(***************************************************************************)
Running == pc \notin {"idle", "done"}
JoinPcs == {"addrJoin1", "addrJoin2", "symJoin"}
Keys(tokens) == { TokenKey(tokens[i]) : i \in DOMAIN tokens }

\* C1: for a query classified as unknown the search issues no provider call
\* and no RPC call, and returns an empty list with a nil error.
C1_UnknownSkipsAll ==
    DetectInputType(query) = "unknown" =>
        /\ extCalls = 0
        /\ rpcCalls = 0
        /\ \A p \in Providers : prov[p] = NoTask
        /\ pc = "done" => (returned = <<>> /\ retErr = "nil")

\* the string matches ^0x[a-fA-F0-9]{40}$
MatchesAddressPattern(s) ==
    /\ Len(s) = 42
    /\ s[1] = "0"
    /\ s[2] = "x"
    /\ \A i \in 3..42 : s[i] \in HexChars

\* the string matches ^[A-Za-z][A-Za-z0-9]{1,10}$
MatchesSymbolPattern(s) ==
    /\ Len(s) \in 2..11
    /\ s[1] \in AlphaChars
    /\ \A i \in 2..Len(s) : s[i] \in AlnumChars

\* the class the two patterns give a string
PatternClass(s) ==
    IF MatchesAddressPattern(s) THEN "address"
    ELSE IF MatchesSymbolPattern(s) THEN "symbol"
    ELSE "unknown"

\* the string without its leading and trailing white space, stated by its ends
Core(s) ==
    LET first == CHOOSE i \in 1..(Len(s) + 1) :
                    /\ \A k \in 1..(i - 1) : s[k] \in WhiteSpace
                    /\ i <= Len(s) => s[i] \notin WhiteSpace
        last == CHOOSE j \in 0..Len(s) :
                    /\ \A k \in (j + 1)..Len(s) : s[k] \in WhiteSpace
                    /\ j >= 1 => s[j] \notin WhiteSpace
    IN SubSeq(s, first, last)

\* C2 (as amended): DetectInputType classifies the input with its leading and
\* trailing white space removed: address when that matches the address
\* pattern, symbol when it matches the symbol pattern and is no address,
\* unknown otherwise.
C2_ClassifiesTrimmed ==
    fnPc = "detected" => fnOut = PatternClass(Core(fnIn))

\* C2 (as stated): the class is that of the string as given.
C2_ClassifiesRaw ==
    fnPc = "detected" => fnOut = PatternClass(fnIn)

\* an address wrapped in white space has been classified
C2_Witness ==
    /\ fnPc = "detected"
    /\ fnOut = "address"
    /\ fnIn # Core(fnIn)

NoDuplicateKeys(tokens) ==
    \A i, j \in DOMAIN tokens : TokenKey(tokens[i]) = TokenKey(tokens[j]) => i = j

\* C3: the list a search returns holds no two tokens with the same
\* (chainId, lower-cased address), whatever the sources sent and in whatever
\* order it arrived.
C3_ReturnedKeysUnique ==
    pc = "done" => NoDuplicateKeys(returned)

\* a search has returned after collecting the same token from several sources
C3_Witness ==
    /\ pc = "done"
    /\ ~NoDuplicateKeys(allTokens)
    /\ Len(allTokens) >= 3
    /\ returned # <<>>

\* the order the specification gives the sources, best first
SourceOrder == <<"geckoterminal", "onchain", "dexscreener", "binance">>
RankOf(source) == CHOOSE r \in DOMAIN SourceOrder : SourceOrder[r] = source
Group(tokens, key) == { i \in DOMAIN tokens : TokenKey(tokens[i]) = key }

\* C4: of the input records with one (chainId, lower-cased address) exactly
\* one survives, and it comes from the best source among them under
\* geckoterminal > onchain > dexscreener > binance, whatever the input order.
C4_BestSourceSurvives ==
    fnPc = "deduped" =>
        \A key \in Keys(fnIn) :
            /\ Cardinality(Group(fnOut, key)) = 1
            /\ \A o \in Group(fnOut, key) :
                   /\ \E i \in Group(fnIn, key) : fnOut[o] = fnIn[i]
                   /\ \A i \in Group(fnIn, key) :
                          RankOf(fnOut[o].Source) <= RankOf(fnIn[i].Source)

\* three sources collide on one token, the best of them given last, and the
\* on-chain record meets the DEX-pair record
C4_Witness ==
    /\ fnPc = "deduped"
    /\ Len(fnIn) = 3
    /\ Cardinality(Keys(fnIn)) = 1
    /\ fnIn[1].Source = "dexscreener"
    /\ fnIn[2].Source = "binance"
    /\ fnIn[3].Source = "onchain"
    /\ fnIn[1].Address # fnIn[3].Address
    /\ Len(fnOut) = 1
    /\ fnOut[1].Source = "onchain"

\* C5: when the cache holds a list under the query's key, the search returns
\* that list at once: no provider request, no RPC, no task started.
C5_CacheHitReturnsAtOnce ==
    cachedAtStart # <<>> =>
        /\ pc = "done"
        /\ returned = cachedAtStart[1]
        /\ retErr = "nil"
        /\ extCalls = 0
        /\ rpcCalls = 0
        /\ \A p \in Providers : prov[p] = NoTask
        /\ \A c \in ActiveChains : chain[c] = NoChainTask

\* a call found an entry under its key
C5_Witness ==
    /\ cachedAtStart # <<>>
    /\ pc = "done"
    /\ Len(returned) >= 2

\* C6 (as amended): when a search returned a non-empty list and the same
\* query is searched again within the TTL window, the cache store working,
\* the second search returns that list and issues no provider request and no
\* RPC.
C6_RepeatOfNonEmptyIsCached ==
    (prev # <<>> /\ prev[1] # <<>>) =>
        /\ pc = "done"
        /\ returned = prev[1]
        /\ extCalls = 0
        /\ rpcCalls = 0

\* C6 (as stated): the same for any query, whatever the first search returned.
C6_RepeatIsCached ==
    prev # <<>> =>
        /\ ~Running
        /\ extCalls = 0
        /\ rpcCalls = 0
        /\ pc = "done" => returned = prev[1]

\* a second search of the query ended within the window of a first one that
\* had found tokens
C6_Witness ==
    /\ prev # <<>>
    /\ Len(prev[1]) >= 1
    /\ pc = "done"
    /\ returned = prev[1]

\* C7: for a query classified as address no provider goroutine is started and
\* no provider request is issued; the work done is the by-address fan-out.
C7_AddressSkipsProviders ==
    DetectInputType(query) = "address" =>
        /\ extCalls = 0
        /\ \A p \in Providers : prov[p] = NoTask
        /\ results = <<>>
        /\ pc \in {"idle", "done", "addrJoin1", "addrJoin2"}

\* an address search has run its chain tasks and returned a token
C7_Witness ==
    /\ DetectInputType(query) = "address"
    /\ pc = "done"
    /\ rpcCalls >= 2
    /\ returned # <<>>

\* the tokens of the providers the loop received from, and of the chain tasks
\* joined, are in the returned list under their keys
SiblingsContribute ==
    /\ \A q \in received : prov[q].st = "ok" => Keys(prov[q].tokens) \subseteq Keys(returned)
    /\ \A c \in ActiveChains : chain[c].st = "sent" /\ Keys(chain[c].token) \subseteq Keys(returned)
    /\ (~ctxDone /\ prov[CHOOSE p \in Providers : TRUE] # NoTask) => received = Providers

C10_DeadlineAbandonsTasks ==
    (ctxDone /\ Running) => ENABLED (Collect \/ JoinReceive \/ JoinEnd \/ CloseResults)

\* the collection loop of a symbol search is over
CollectionOver == pc \in {"symJoin", "done"} /\ cachedAtStart = <<>>

\* C11: a provider result that was in the results channel before the deadline
\* fired is in the merged list: once the collection is over, every provider
\* that answered (it can only have answered before the deadline) has been
\* received and its tokens are in allTokens.
C11_DeliveredResultsKept ==
    CollectionOver =>
        \A p \in Providers :
            prov[p].st = "ok" =>
                /\ p \in received
                /\ Keys(prov[p].tokens) \subseteq Keys(allTokens)

\* C12: for a symbol query the by-symbol chain tasks run alongside the
\* provider tasks: while the search is collecting the provider results the
\* chain tasks have been started.
C12_OnchainRunsAlongside ==
    (DetectInputType(query) = "symbol" /\ pc = "collect") =>
        \A c \in ActiveChains : chain[c].st # "none"

\* no provider answered and no chain task of the call found a token
TotalFailure ==
    /\ \A p \in Providers : prov[p].st # "ok"
    /\ \A c \in ActiveChains : chain[c].token = <<>> /\ firstChain[c].token = <<>>

\* C13: when every provider and every chain lookup failed, the search returns
\* an empty list with a nil error.
C13_TotalFailureIsEmpty ==
    (pc = "done" /\ cachedAtStart = <<>> /\ TotalFailure) =>
        (returned = <<>> /\ retErr = "nil")

\* a symbol search has ended with its three providers failed after their
\* requests and its chain lookups failed after their RPCs
C13_Witness ==
    /\ pc = "done"
    /\ cachedAtStart = <<>>
    /\ \A p \in Providers : prov[p].st = "failed"
    /\ received = Providers
    /\ \A c \in ActiveChains : chain[c].st = "sent" /\ chain[c].token = <<>>
    /\ extCalls = 3
    /\ rpcCalls = 2
    /\ returned = <<>>

\* the decimals() response encodes a value above 77
DecimalsAbove77(word) == word.hi > 0 \/ word.lo > 77

\* C14: in the on-chain metadata fetch, a decimals call that fails or returns
\* a value above 77 gives the token decimals 18, and a failed symbol or name
\* call gives no token.
C14_DecimalsDefault ==
    fnPc = "verified" =>
        LET reply == fnIn.reply
        IN /\ (~reply.symbolOk \/ ~reply.nameOk) => fnOut = <<>>
           /\ (fnOut # <<>> /\ (~reply.decimalsOk \/ DecimalsAbove77(reply.decimals))) =>
                  fnOut[1].Decimals = 18

\* the token the i-th run of the enrichment starts from, <<>> for nil
RunInput(i) ==
    IF i = 1
    THEN LET baseToken == verifyTokenOnchain(fnIn.reply, DedupAddr, fnIn.chainID)
         IN IF baseToken = <<>> THEN <<>> ELSE <<MarketToken(baseToken[1])>>
    ELSE fnOut[i - 1].token

Consulted(run) == {run.calls[n] : n \in 1..Len(run.calls)}

\* the DEX-pair response carries a valid price for the token
DexHasValidPrice(token) ==
    /\ fnIn.dex.kind = "ok"
    /\ \E n \in 1..Len(fnIn.dex.pairs) :
          /\ EqualFold(fnIn.dex.pairs[n].BaseAddress, token.Address)
          /\ PositiveText(fnIn.dex.pairs[n].PriceUsd)

\* the pool response carries a valid price for the token
GeckoHasValidPrice ==
    /\ fnIn.gecko.kind = "ok"
    /\ fnIn.gecko.attrs.Name # <<>>
    /\ PositiveText(fnIn.gecko.attrs.PriceUsd)

\* C15: every run of enhanceTokenWithMarketData asks the DEX-pair provider
\* first and asks the pool provider only when the DEX-pair step selected no
\* pair; and when both responses carry a valid price for the token, the
\* run ends with the DEX-pair step's token and the provenance
\* "dexscreener_enhanced", the pool provider not consulted.
C15_DexFirstAndWins ==
    fnPc = "enhance" =>
        \A i \in 1..Len(fnOut) :
            LET run == fnOut[i]
                input == RunInput(i)
            IN input # <<>> =>
                LET first == enhanceFromDexScreener(input[1], fnIn.dex, i)
                IN /\ run.calls # <<>> /\ run.calls[1] = "dexscreener"
                   /\ "geckoterminal" \in Consulted(run) => ~first.ok
                   /\ (DexHasValidPrice(input[1]) /\ GeckoHasValidPrice) =>
                          /\ ~run.panicked
                          /\ run.calls = <<"dexscreener">>
                          /\ run.token = <<first.token>>
                          /\ run.token[1].Source = "dexscreener_enhanced"

\* C16: when getTokenWithMarketData has its on-chain token and neither the
\* DEX-pair step nor the pool step succeeds, it returns the token, with
\* Source "onchain_only" and price, volume, market cap and 24h change unset.
C16_NeitherSucceedsIsOnchainOnly ==
    (fnPc = "enhance" /\ fnOut # <<>> /\ RunInput(1) # <<>>) =>
        LET run == fnOut[1]
            first == enhanceFromDexScreener(RunInput(1)[1], fnIn.dex, 1)
            second == enhanceFromGeckoTerminal(RunInput(1)[1], fnIn.gecko, 1)
        IN (~first.ok /\ ~second.ok) =>
              /\ ~run.panicked
              /\ run.token # <<>>
              /\ run.token[1].Source = "onchain_only"
              /\ run.token[1].PriceUSD = 0
              /\ run.token[1].Volume24h = 0
              /\ run.token[1].MarketCap = 0
              /\ run.token[1].Change24h = 0

\* a token pointer with its timestamp blanked
ButLastUpdated(token) ==
    IF token = <<>> THEN <<>> ELSE <<[token[1] EXCEPT !.LastUpdated = 0]>>

\* C20: a further run of enhanceTokenWithMarketData on the token a run
\* left, the two providers answering as before, leaves every field of the
\* token but LastUpdated as it was.
C20_EnrichmentIdempotent ==
    fnPc = "enhance" =>
        \A i \in 2..Len(fnOut) :
            ButLastUpdated(fnOut[i].token) = ButLastUpdated(fnOut[i - 1].token)

\* a second run re-applied the pool provider's data to a token that already
\* held it, logo included, and only the timestamp moved
C20_Witness ==
    /\ fnPc = "enhance"
    /\ Len(fnOut) >= 2
    /\ fnOut[2].calls = <<"dexscreener", "geckoterminal">>
    /\ fnOut[2].token # <<>>
    /\ fnOut[2].token[1].Source = "geckoterminal_enhanced"
    /\ fnOut[2].token[1].PriceUSD > 0
    /\ fnOut[2].token[1].LogoURI # <<>>
    /\ fnOut[2].token[1].LastUpdated # fnOut[1].token[1].LastUpdated

\* no provider's result that the collection loop received held a token
ProvidersContributeNothing == \A p \in received : prov[p].tokens = <<>>

\* the chains whose popular-token lookup produced a token
ChainsFound == {c \in ActiveChains : chain[c].token # <<>>}

\* C17: a symbol search in which the providers contributed no token and the
\* popular-token lookup produced a token on exactly one active chain returns
\* exactly that one token, with Source "onchain" and Popular true.
C17_PopularOnOneChain ==
    (/\ pc = "done"
     /\ cachedAtStart = <<>>
     /\ DetectInputType(query) = "symbol"
     /\ ProvidersContributeNothing
     /\ Cardinality(ChainsFound) = 1) =>
        /\ Len(returned) = 1
        /\ returned[1].ChainID \in ChainsFound
        /\ returned[1].Address = ToLower(GetPopularTokens(returned[1].ChainID)[ToUpper(query)])
        /\ returned[1].Source = "onchain"
        /\ returned[1].Popular = TRUE
        /\ retErr = "nil"

\* the three providers were called and failed, chain 1 verified the popular
\* address and chain 56 did not
C17_Witness ==
    /\ pc = "done"
    /\ cachedAtStart = <<>>
    /\ query = QSym
    /\ extCalls = 3
    /\ received = Providers
    /\ \A p \in Providers : prov[p].st = "failed"
    /\ ChainsFound = {1}
    /\ chain[56].st = "sent"
    /\ Len(returned) = 1
    /\ returned[1].Popular = TRUE

\* the chains on which a fan-out of the address search produced a token
AddressChainsFound ==
    {c \in ActiveChains : firstChain[c].token # <<>> \/ chain[c].token # <<>>}

\* the tokens the two fan-outs produced on chain c
AddressTokensOn(c) ==
    {firstChain[c].token[n] : n \in 1..Len(firstChain[c].token)}
        \cup {chain[c].token[n] : n \in 1..Len(chain[c].token)}

\* C18: an address search whose address verified as a token on exactly one
\* active chain returns exactly one token: verified, with that chain's id, the
\* lower-cased address, and the symbol and decimals read from the contract.
C18_AddressOnOneChain ==
    (/\ pc = "done"
     /\ cachedAtStart = <<>>
     /\ DetectInputType(query) = "address"
     /\ Cardinality(AddressChainsFound) = 1) =>
        /\ Len(returned) = 1
        /\ retErr = "nil"
        /\ returned[1].Verified = TRUE
        /\ returned[1].ChainID \in AddressChainsFound
        /\ returned[1].Address = ToLower(query)
        /\ returned[1].Source = "onchain"
        /\ \E token \in AddressTokensOn(returned[1].ChainID) :
              /\ returned[1].Symbol = token.Symbol
              /\ returned[1].Decimals = token.Decimals

\* both fan-outs verified the address on chain 1 and on no other chain, and
\* the two copies became one token
C18_Witness ==
    /\ pc = "done"
    /\ cachedAtStart = <<>>
    /\ query = QAddr
    /\ firstChain[1].token # <<>>
    /\ chain[1].token # <<>>
    /\ firstChain[56].st = "sent" /\ firstChain[56].token = <<>>
    /\ chain[56].st = "sent" /\ chain[56].token = <<>>
    /\ Len(returned) = 1
    /\ returned[1].ChainID = 1
    /\ returned[1].Verified = TRUE

\* the step in which a call that ran the search returns
SearchReturns == pc \notin {"idle", "done"} /\ pc' = "done"

\* C19: when a call that ran the search returns, it has issued a cache.Set
\* of the returned list under the query's key with a TTL of 5 minutes if the
\* list is non-empty, and the store, if it took the write, holds the list
\* under that key; if the list is empty the call issued no cache.Set and
\* the cache is as it was.
C19_CachedIffNonEmpty ==
    [][SearchReturns =>
          IF Len(returned') > 0
          THEN /\ setCall' = << [key |-> CacheKey(query), value |-> returned',
                                ttl |-> CacheTTL] >>
               /\ cache' = IF storeUp THEN MapPut(cache, CacheKey(query), returned') ELSE cache
          ELSE /\ setCall' = <<>>
               /\ cache' = cache]_vars

\* a search that found tokens has returned and the store holds its list
\* under the query's key
C19_Witness ==
    /\ pc = "done"
    /\ cachedAtStart = <<>>
    /\ Len(returned) > 0
    /\ setCall # <<>>
    /\ setCall[1].ttl = CacheTTL
    /\ CacheKey(query) \in DOMAIN cache
    /\ cache[CacheKey(query)] = returned

\* the chain tasks of the fan-outs of this call, for chain c
TasksOf(c) == {firstChain[c], chain[c]}

RpcRounds(task) == {task.rpc[n] : n \in 1..Len(task.rpc)}

FetchRounds == {"fetch_ok", "fetch_failed", "fetch_panicked"}

\* C21: in an address search, a chain task that made the metadata fetch made
\* it after its quick check had succeeded, and a task whose quick check did
\* not succeed made no other RPC round and sent no token.
C21_FetchOnlyAfterQuickCheck ==
    DetectInputType(query) = "address" =>
        \A c \in ActiveChains : \A task \in TasksOf(c) :
            /\ RpcRounds(task) \cap FetchRounds # {} =>
                  /\ Len(task.rpc) = 2
                  /\ task.rpc[1] = "quick_ok"
                  /\ task.rpc[2] \in FetchRounds
            /\ (task.rpc # <<>> /\ task.rpc[1] # "quick_ok") =>
                  /\ Len(task.rpc) = 1
                  /\ task.st = "sent"
                  /\ task.token = <<>>

\* chain 1 passed the quick check and its fetch gave a token, chain 56
\* failed the quick check and was left alone
C21_Witness ==
    /\ DetectInputType(query) = "address"
    /\ chain[1].rpc = <<"quick_ok", "fetch_ok">>
    /\ chain[1].token # <<>>
    /\ chain[56].rpc = <<"quick_failed">>
    /\ chain[56].st = "sent"
    /\ chainClosed

\* C22: a chain task that passed the quick check and whose metadata fetch
\* takes less than 5 seconds and ends before the caller's deadline gets the
\* fetch's result: the 3 second budget does not cut the fetch off.
C22_FetchHasLongerDeadline ==
    (fnPc = "sent" /\ fnOut.passed
       /\ fnIn.fetchTook < RpcBudget
       /\ fnIn.quickTook + fnIn.fetchTook < fnIn.ctx) => fnOut.fetched

\* C23: while a chain fan-out is being joined there is one task for every
\* active chain and for no other; a task that has ended, by a return or by a
\* recovered panic, has put exactly one result on the channel, a task still
\* running none; and the channel is closed only when every task has ended.
C23_OneResultPerChain ==
    /\ DOMAIN chain = ActiveChains
    /\ pc \in JoinPcs =>
          /\ \A c \in ActiveChains : chain[c].st \in {"pending", "checked", "sent"}
          /\ chainClosed => \A c \in ActiveChains : chain[c].st = "sent"
    /\ \A c \in ActiveChains : \A task \in TasksOf(c) :
          /\ task.st = "sent" => task.sends = 1
          /\ task.st # "sent" => task.sends = 0

\* one fan-out in which a task returned a token, and one in which a task
\* panicked and the recover sent its nil result
C23_Witness ==
    /\ pc \in JoinPcs
    /\ chainClosed
    /\ \E c \in ActiveChains : chain[c].panicked /\ chain[c].sends = 1
    /\ \E c \in ActiveChains : chain[c].token # <<>> /\ chain[c].sends = 1

\* the popular-symbol table of chain c maps the upper-cased query
PopularMaps(c) == ToUpper(query) \in DOMAIN GetPopularTokens(c)

\* C24: in a search that is not by address, the task of an active chain
\* sends a token if and only if the chain's popular-symbol table maps the
\* upper-cased query and the metadata fetch of that address succeeded; the
\* token has that address, the chain's id and Popular true, and it is in the
\* list the search deduplicates.
C24_SymbolChainContributes ==
    DetectInputType(query) # "address" =>
        \A c \in ActiveChains :
            chain[c].st = "sent" =>
                /\ chain[c].token # <<>> <=> (PopularMaps(c) /\ chain[c].rpc = <<"fetch_ok">>)
                /\ ~PopularMaps(c) => chain[c].rpc = <<>>
                /\ chain[c].token # <<>> =>
                      /\ chain[c].token[1].Popular = TRUE
                      /\ chain[c].token[1].ChainID = c
                      /\ chain[c].token[1].Address =
                            ToLower(GetPopularTokens(c)[ToUpper(query)])
                      /\ pc = "done" =>
                            \E n \in 1..Len(allTokens) : allTokens[n] = chain[c].token[1]

\* a symbol search returned: chain 1 fetched the popular address and sent
\* the token, chain 56 had the symbol in its table and its fetch failed
C24_Witness ==
    /\ pc = "done"
    /\ query = QSym
    /\ chain[1].rpc = <<"fetch_ok">> /\ chain[1].token # <<>>
    /\ chain[56].rpc = <<"fetch_failed">> /\ chain[56].token = <<>>
    /\ chain[56].st = "sent"

\* C25: with calls running concurrently, every list in the cache is the
\* final list of one call that ran its search to the end and whose
\* classification and lower-cased query are the key: non-empty, without
\* duplicate keys, and a deduplication of all that call found.
C25_CacheHoldsWholeLists ==
    \A k \in DOMAIN cache :
        \E i \in Calls :
            /\ fnPc[i] = "done"
            /\ ~fnOut[i].fromCache
            /\ k = <<DetectInputType(fnIn[i]), ToLower(fnIn[i])>>
            /\ cache[k] = fnOut[i].final
            /\ cache[k] # <<>>
            /\ NoDuplicateKeys(cache[k])
            /\ cache[k] \in deduplicateTokens(fnOut[i].all)

\* two calls with the same key both missed the cache, found different
\* lists and wrote one after the other: the entry is the later writer's
C25_Witness ==
    /\ fnPc = [i \in Calls |-> "done"]
    /\ CacheKey(fnIn[1]) = CacheKey(fnIn[2])
    /\ ~fnOut[1].fromCache /\ ~fnOut[2].fromCache
    /\ fnOut[1].final # <<>> /\ fnOut[2].final # <<>>
    /\ fnOut[1].final # fnOut[2].final
    /\ CacheKey(fnIn[1]) \in DOMAIN cache
    /\ cache[CacheKey(fnIn[1])] = fnOut[2].final

\* C26: the list deduplicateTokens returns for an input is the only list it
\* can return for it: the order of the output is fixed by the input.
C26_DeterministicOrder ==
    fnPc = "deduped" => deduplicateTokens(fnIn) = {fnOut}

\* the pairs of the DEX-pair response whose base token is the token's
MatchingPairs(token) ==
    {n \in 1..Len(fnIn.dex.pairs) : EqualFold(fnIn.dex.pairs[n].BaseAddress, token.Address)}

\* the USD liquidity a pair reports, none reported counting as zero
LiquidityOf(pair) ==
    IF ParseDecimal(pair.LiquidityUSD) = <<>> THEN 0 ELSE ParseDecimal(pair.LiquidityUSD)[1]

\* C27: when the DEX-pair response is read and decoded, the step selects a
\* pair if any returned pair has the token as its base token, and the pair it
\* selects is a matching pair of the largest liquidity, the first of them in
\* the order of the response.
C27_BestPairIsLargestMatch ==
    (fnPc = "enhance" /\ fnOut # <<>> /\ RunInput(1) # <<>>
       /\ fnIn.dex.kind = "ok" /\ fnIn.dex.bodyLen >= LogPrefixLen) =>
        LET token == RunInput(1)[1]
            pairs == fnIn.dex.pairs
            bestPair == BestPair(pairs, token.Address, 1, 0, 0)
            first == enhanceFromDexScreener(token, fnIn.dex, 1)
        IN /\ first.ok <=> MatchingPairs(token) # {}
           /\ first.ok =>
                 /\ bestPair \in MatchingPairs(token)
                 /\ \A n \in MatchingPairs(token) :
                       /\ LiquidityOf(pairs[n]) <= LiquidityOf(pairs[bestPair])
                       /\ LiquidityOf(pairs[n]) = LiquidityOf(pairs[bestPair]) => bestPair <= n

\* the text is present, not null and a valid decimal: <<>> or <<its value>>
DecimalGiven(str) == IF str = "" \/ str = "null" THEN <<>> ELSE ParseDecimal(str)

\* what the field holds after the call if it is set only from a strictly
\* positive decimal
AfterPositive(before, str) ==
    IF DecimalGiven(str) # <<>> /\ DecimalGiven(str)[1] > 0 THEN DecimalGiven(str)[1] ELSE before

\* C28: after parseAndSetMarketData on a token, price, volume and market cap
\* hold the decimal of their text when the text is present, not null and a
\* valid strictly positive decimal, and what they held before otherwise; the
\* 24h change holds the decimal of its text when it is present, not null and
\* valid, zero and negative included, and what it held before otherwise.
C28_FieldsSetByRule ==
    (fnPc = "parsed" /\ fnIn.token # <<>>) =>
        LET before == fnIn.token[1]
            after == fnOut[1]
        IN /\ after.PriceUSD = AfterPositive(before.PriceUSD, fnIn.priceUsd)
           /\ after.Volume24h = AfterPositive(before.Volume24h, fnIn.volume24h)
           /\ after.MarketCap = AfterPositive(before.MarketCap, fnIn.marketCap)
           /\ after.Change24h = IF DecimalGiven(fnIn.priceChange24h) # <<>>
                                THEN DecimalGiven(fnIn.priceChange24h)[1]
                                ELSE before.Change24h
           /\ [after EXCEPT !.PriceUSD = 0, !.Volume24h = 0, !.MarketCap = 0,
                            !.Change24h = 0, !.LastUpdated = 0]
                = [before EXCEPT !.PriceUSD = 0, !.Volume24h = 0, !.MarketCap = 0,
                                 !.Change24h = 0, !.LastUpdated = 0]

\* a token with market data got a new price, kept its volume over a zero,
\* kept its market cap over a null and took a negative change
C28_Witness ==
    /\ fnPc = "parsed"
    /\ fnIn.token # <<>>
    /\ fnIn.token[1].PriceUSD = 7
    /\ fnIn.priceUsd = "3" /\ fnOut[1].PriceUSD = 3
    /\ fnIn.volume24h = "0.0" /\ fnOut[1].Volume24h = 7
    /\ fnIn.marketCap = "null" /\ fnOut[1].MarketCap = 7
    /\ fnIn.priceChange24h = "-2" /\ fnOut[1].Change24h = 0 - 2

\* C29: for a decimals() response of 32 bytes, callDecimalsMethod yields the
\* response's value when it is in 0..77 and an error otherwise, whichever
\* bits make the value exceed 77, so that the token then has 18 decimals.
C29_DecimalsDecodedWhole ==
    (fnPc = "verified" /\ fnIn.reply.decimalsOk) =>
        LET word == fnIn.reply.decimals
            got == callDecimalsMethod(fnIn.reply)
        IN /\ ~DecimalsAbove77(word) => (~got.err /\ got.value = word.lo)
           /\ DecimalsAbove77(word) => got.err
           /\ (fnOut # <<>> /\ DecimalsAbove77(word)) => fnOut[1].Decimals = DefaultDecimals
           /\ (fnOut # <<>> /\ ~DecimalsAbove77(word)) => fnOut[1].Decimals = word.lo

ReturnedSources == {returned[n].Source : n \in 1..Len(returned)}

\* C30: every token of a returned list has its address in lower case and
\* its symbol in upper case, whichever source it came from.
C30_ReturnedCaseNormalised ==
    pc = "done" =>
        \A n \in 1..Len(returned) :
            /\ returned[n].Address = ToLower(returned[n].Address)
            /\ returned[n].Symbol = ToUpper(returned[n].Symbol)

\* a search returned a token read from the chain next to one a provider
\* sent
C30_Witness ==
    /\ pc = "done"
    /\ cachedAtStart = <<>>
    /\ "onchain" \in ReturnedSources
    /\ ReturnedSources \ {"onchain"} # {}

(***************************************************************************)
(* The pool search and the DEX-pair search                                 *)
(***************************************************************************)
\* the chain a provider's network slug stands for, 0 if the slug is not in its table
ProviderChain(provider, network) ==
    IF provider = "geckoterminal" THEN mapGeckoTerminalNetworkToChainID(network)
    ELSE mapDexScreenerChainToID(network)

\* a symbol that names a stablecoin, however it is spelt
StableSymbol(symbol) == ToUpper(symbol) \in Stablecoins

\* token carries the address, symbol and name of leg, on chain chainID
TakenFrom(token, leg, chainID) ==
    /\ token.Address = ToLower(leg.Address)
    /\ token.Symbol = ToUpper(leg.Symbol)
    /\ token.Name = leg.Name
    /\ token.ChainID = chainID

PoolSearch == fnPc = "searched" /\ fnIn.provider \in {"geckoterminal", "dexscreener"}

\* C31: every token the pool search or the DEX-pair search returns is verified
\* and not popular, and is the leg of a pool of the response whose network
\* slug is in the provider's table and maps to an active chain: its base leg,
\* or its quote leg if that leg's symbol is not a stablecoin.
C31_PoolTokensFiltered ==
    PoolSearch =>
        \A i \in DOMAIN fnOut :
            /\ fnOut[i].Verified = TRUE
            /\ fnOut[i].Popular = FALSE
            /\ \E j \in DOMAIN fnIn.pools.items :
                   LET pool == fnIn.pools.items[j]
                       chainID == ProviderChain(fnIn.provider, pool.network)
                   IN /\ chainID # 0
                      /\ chainID \in ActiveChains
                      /\ \/ TakenFrom(fnOut[i], pool.base, chainID)
                         \/ /\ TakenFrom(fnOut[i], pool.quote, chainID)
                            /\ ~StableSymbol(pool.quote.Symbol)

\* a response whose first pool is on an active chain with a stablecoin quote
\* leg in lower case and whose second pool is on no active chain; one token
\* is returned
C31_Witness ==
    /\ PoolSearch
    /\ fnIn.pools.kind = "ok"
    /\ Len(fnIn.pools.items) = 2
    /\ ProviderChain(fnIn.provider, fnIn.pools.items[1].network) \in ActiveChains
    /\ fnIn.pools.items[1].quote.Symbol = ToLower(SymUSDC)
    /\ ProviderChain(fnIn.provider, fnIn.pools.items[2].network) \notin ActiveChains
    /\ Len(fnOut) = 1

(***************************************************************************)
(* The exchange ticker search                                              *)
(***************************************************************************)
BinanceSearch == fnPc = "searched" /\ fnIn.provider = "binance"

\* the base assets of a ticker symbol: the symbol without its USDT or BNB suffix
BaseAssets(symbol) ==
    { SubSeq(symbol, 1, Len(symbol) - Len(suffix)) :
        suffix \in { x \in {SuffixUSDT, SuffixBNB} : HasSuffix(symbol, x) } }

\* C32: every token searchBinance returns is on chain 56 with popular = true
\* and stands for a ticker of the response that ends in USDT or BNB, whose
\* base asset contains the upper-cased query and is a key of chain 56's
\* popular-token table, the token's address being the table's; no two
\* returned tokens have the same base asset; nothing is returned when chain
\* 56 is not active.
C32_BinanceTokensFiltered ==
    BinanceSearch =>
        /\ \A i \in DOMAIN fnOut :
              /\ fnOut[i].ChainID = 56
              /\ fnOut[i].Popular = TRUE
              /\ \E j \in DOMAIN fnIn.tickers.items :
                     \E baseAsset \in BaseAssets(fnIn.tickers.items[j]) :
                         /\ Contains(baseAsset, ToUpper(fnIn.query))
                         /\ baseAsset \in DOMAIN GetPopularTokens(56)
                         /\ fnOut[i].Symbol = baseAsset
                         /\ fnOut[i].Address = ToLower(GetPopularTokens(56)[baseAsset])
        /\ \A i, k \in DOMAIN fnOut : i # k => fnOut[i].Symbol # fnOut[k].Symbol
        /\ ~fnIn.bscActive => fnOut = <<>>

\* two tickers of one listed asset, one per quote suffix, answer a query in
\* lower case: one token is returned
C32_Witness ==
    /\ BinanceSearch
    /\ fnIn.bscActive
    /\ fnIn.query = ToLower(SymWETH)
    /\ fnIn.tickers = [kind |-> "ok", items |-> <<SymWETH \o SuffixUSDT, SymWETH \o SuffixBNB>>]
    /\ Len(fnOut) = 1
    /\ fnOut[1].Symbol = SymWETH

\* C39: for a symbol query, every token searchBinance returns has the
\* upper-cased query as its symbol.
C39_BinanceSymbolIsQuery ==
    (BinanceSearch /\ DetectInputType(fnIn.query) = "symbol") =>
        \A i \in DOMAIN fnOut : fnOut[i].Symbol = ToUpper(fnIn.query)

(***************************************************************************)
(* Provenance and timestamp of an enriched token                           *)
(***************************************************************************)
\* the DEX-pair response has a body that is read and parsed and a pair the
\* step can select for the token
DexStepSucceeds(token) ==
    /\ fnIn.dex.kind = "ok"
    /\ fnIn.dex.bodyLen >= LogPrefixLen
    /\ \E n \in 1..Len(fnIn.dex.pairs) :
          /\ EqualFold(fnIn.dex.pairs[n].BaseAddress, token.Address)
          /\ \/ fnIn.dex.pairs[n].LiquidityUSD = ""
             \/ ParseDecimal(fnIn.dex.pairs[n].LiquidityUSD) # <<>>

\* the DEX-pair step returned false without a panic
DexStepFails(token) ==
    /\ ~DexStepSucceeds(token)
    /\ fnIn.dex.kind \in NoBodyKinds \/ fnIn.dex.bodyLen >= LogPrefixLen

\* the pool response has a body that is read and parsed and names a token
GeckoStepSucceeds ==
    /\ fnIn.gecko.kind = "ok"
    /\ fnIn.gecko.bodyLen >= LogPrefixLen
    /\ fnIn.gecko.attrs.Name # <<>>

\* C33: a run in which the DEX-pair step succeeds leaves the token with
\* LastUpdated at the time of the run and Source "dexscreener_enhanced"; a
\* run in which that step fails and the pool step succeeds leaves it with
\* LastUpdated at the time of the run and Source "geckoterminal_enhanced".
C33_SuccessStampsAndTags ==
    fnPc = "enhance" =>
        \A i \in 1..Len(fnOut) :
            LET run == fnOut[i]
                input == RunInput(i)
            IN input # <<>> =>
                /\ DexStepSucceeds(input[1]) =>
                      /\ run.token # <<>>
                      /\ run.token[1].LastUpdated = i
                      /\ run.token[1].Source = "dexscreener_enhanced"
                /\ (DexStepFails(input[1]) /\ GeckoStepSucceeds) =>
                      /\ run.token # <<>>
                      /\ run.token[1].LastUpdated = i
                      /\ run.token[1].Source = "geckoterminal_enhanced"

\* a second run whose DEX-pair step succeeded on a token the first run had
\* tagged and stamped
C33_Witness ==
    /\ fnPc = "enhance"
    /\ Len(fnOut) = 2
    /\ fnOut[1].token # <<>>
    /\ DexStepSucceeds(fnOut[1].token[1])
    /\ fnOut[1].token[1].LastUpdated = 1
    /\ fnOut[2].token[1].LastUpdated = 2
    /\ fnOut[2].token[1].Source = "dexscreener_enhanced"

\* C37: after a run of enhanceTokenWithMarketData, a token whose Source is
\* "dexscreener_enhanced" or "geckoterminal_enhanced" has PriceUSD > 0.
C37_TagImpliesPrice ==
    fnPc = "enhance" =>
        \A i \in 1..Len(fnOut) :
            (/\ ~fnOut[i].panicked
             /\ fnOut[i].token # <<>>
             /\ fnOut[i].token[1].Source \in {"dexscreener_enhanced", "geckoterminal_enhanced"})
            => fnOut[i].token[1].PriceUSD > 0

(***************************************************************************)
(* The fan-outs: how often they run, their channels, their join            *)
(***************************************************************************)
QuickRounds == {"quick_ok", "quick_failed", "quick_panicked"}

\* the number of RPC rounds of the given kinds a task made
RoundsIn(task, kinds) == Cardinality({ n \in 1..Len(task.rpc) : task.rpc[n] \in kinds })

\* C34: in one search of an address, each active chain sees at most one
\* quick check and at most one metadata fetch.
C34_AddressFanOutOnce ==
    DetectInputType(query) = "address" =>
        \A c \in ActiveChains :
            /\ RoundsIn(firstChain[c], QuickRounds) + RoundsIn(chain[c], QuickRounds) <= 1
            /\ RoundsIn(firstChain[c], FetchRounds) + RoundsIn(chain[c], FetchRounds) <= 1

\* the provider goroutines and the chain goroutines that have not sent yet
PendingProviders == { p \in Providers : prov[p].st = "pending" }
UnsentChains == { c \in ActiveChains : chain[c].st \in {"pending", "checked"} }

\* C35: a goroutine that has its result to send finds room in its channel:
\* the provider channel holds what is in it and one result of every
\* provider goroutine still running, the channel of a chain fan-out what is
\* in it and one result of every chain goroutine still running; no
\* goroutine sends twice; and every goroutine that has not sent can take
\* its step, whether or not the orchestrator still receives.
C35_SendNeverBlocks ==
    /\ Len(results) + Cardinality(PendingProviders) <= ResultsCap
    /\ Len(chainResults) + Cardinality(UnsentChains) <= Cardinality(ActiveChains)
    /\ \A c \in ActiveChains : chain[c].sends <= 1 /\ firstChain[c].sends <= 1
    /\ \A p \in PendingProviders : ENABLED ProviderTask(p)
    /\ \A c \in UnsentChains :
          ENABLED (ChainSymbolTask(c) \/ ChainQuickCheck(c) \/ ChainVerify(c))

\* the deadline fired, the collection loop gave up without a result, and
\* the three provider goroutines sent all the same
C35_Witness ==
    /\ ctxDone
    /\ pc \in {"symJoin", "done"}
    /\ received = {}
    /\ Len(results) = ResultsCap
    /\ PendingProviders = {}

\* what is left to do in a fan-out: goroutine steps, the close, the receives
JoinMeasure ==
    100 * Cardinality({ c \in ActiveChains : chain[c].st = "pending" })
    + 50 * Cardinality(UnsentChains)
    + 10 * (IF chainClosed THEN 0 ELSE 1)
    + Len(chainResults)

AllSent == \A c \in ActiveChains : chain[c].st = "sent"

\* C36: in a fan-out a result is sent only on the open channel; the channel
\* is closed only when every goroutine has sent, recovered panics included,
\* and stays closed until the fan-out is left; every step of a goroutine,
\* of the closer and of the collector brings the join nearer its end, and
\* once all goroutines are done the closer or the collector can step.
C36_ClosedOnceAfterAllSends ==
    /\ [] ((pc \in JoinPcs /\ AllSent) => ENABLED (CloseResults \/ JoinReceive \/ JoinEnd))
    /\ [][ (pc \in JoinPcs /\ pc' = pc) =>
           /\ Len(chainResults') > Len(chainResults) => (~chainClosed /\ ~chainClosed')
           /\ (~chainClosed /\ chainClosed') => (AllSent /\ chain' = chain)
           /\ chainClosed => (chainClosed' /\ chain' = chain)
           /\ JoinMeasure' <= JoinMeasure
           /\ JoinMeasure' = JoinMeasure =>
                 UNCHANGED <<chain, chainResults, chainClosed>>
       ]_vars

\* a chain goroutine panicked and sent from its recovery, the other sent its
\* token; the channel was closed after both and the collector has drained it
C36_Witness ==
    /\ pc \in JoinPcs
    /\ chainClosed
    /\ chainResults = <<>>
    /\ \E c, d \in ActiveChains :
          /\ chain[c].panicked /\ chain[c].sends = 1
          /\ ~chain[d].panicked /\ chain[d].token # <<>>

(***************************************************************************)
(* The error SearchTokensExternal returns                                  *)
(***************************************************************************)
\* the search proper ran to its end: both fan-outs of an address search,
\* the collection loop and the fan-out of any other search
SearchRan ==
    /\ \A c \in ActiveChains : chain[c].st = "sent"
    /\ IF DetectInputType(query) = "address"
       THEN \A c \in ActiveChains : firstChain[c].st = "sent"
       ELSE collected = CollectRounds

\* C38: a call that has returned returned a nil error; when the cache store
\* fails, the read counted as a miss, the search ran, the caller has the
\* deduplicated list of what the search found, and the write of a
\* non-empty list was issued and left the call's result alone.
C38_NeverReturnsError ==
    pc = "done" =>
        /\ retErr = "nil"
        /\ ~storeUp =>
              /\ cacheErr
              /\ SearchRan
              /\ returned \in deduplicateTokens(allTokens)
              /\ returned # <<>> => setCall # <<>>
              /\ cache = EmptyMap

\* the store is down and the call returned a non-empty list
C38_Witness ==
    /\ pc = "done"
    /\ ~storeUp
    /\ cacheErr
    /\ returned # <<>>
    /\ setCall # <<>>
    /\ retErr = "nil"

(***************************************************************************)
(* Ties and unlisted sources in deduplicateTokens                          *)
(***************************************************************************)
\* 4 to 1 for the tags of the ranking in its order, 0 for any other tag
PriorityOf(source) ==
    IF \E r \in DOMAIN SourceOrder : SourceOrder[r] = source
    THEN 5 - RankOf(source) ELSE 0

\* C40: of the input records with one key, the one that survives is the
\* first of those whose source has the highest priority, a source outside
\* the four known tags counting 0: among equals the earlier record stays,
\* a record of an unlisted source survives only if it is the first of its
\* key and no record of a known source follows it.
C40_FirstOfBestSurvives ==
    fnPc = "deduped" =>
        \A key \in Keys(fnIn) :
            /\ Cardinality(Group(fnOut, key)) = 1
            /\ \A o \in Group(fnOut, key) :
                  \E i \in Group(fnIn, key) :
                      /\ fnOut[o] = fnIn[i]
                      /\ \A j \in Group(fnIn, key) :
                            /\ PriorityOf(fnIn[j].Source) <= PriorityOf(fnIn[i].Source)
                            /\ PriorityOf(fnIn[j].Source) = PriorityOf(fnIn[i].Source)
                                  => fnIn[j] = fnIn[i] \/ i < j
                      /\ PriorityOf(fnIn[i].Source) = 0 =>
                            \A j \in Group(fnIn, key) :
                                i <= j /\ PriorityOf(fnIn[j].Source) = 0

\* two records of unlisted sources, the second spelt differently, then a
\* record of the lowest known source, which replaced the first
C40_Witness ==
    /\ fnPc = "deduped"
    /\ Len(fnIn) = 3
    /\ fnIn[1].Source = "onchain_only"
    /\ fnIn[2].Source = "dexscreener_enhanced"
    /\ fnIn[3].Source = "binance"
    /\ fnOut = <<fnIn[3]>>

====
